---- MODULE Spec2Model ----
(***************************************************************************)
(* A model of the gazette broker's Append path: Service.Append, its        *)
(* resolve / acquirePipeline loop, serveAppend with the pipeline's barrier *)
(* chain, and the appender (beginAppending, onRecv, updateProposal).       *)
(*                                                                         *)
(* One journal is served by one primary.  Each Append RPC is a context     *)
(* a \in Appends whose position in the code is pc[a].  The pipeline, the   *)
(* Spool, the resolver and acquirePipeline are collaborators of the        *)
(* appender whose behaviour is taken from the design document; peers are   *)
(* an environment that answers each acknowledged proposal as it likes      *)
(* (as the test suite's mockPeer does).                                    *)
(***************************************************************************)
EXTENDS Integers, Sequences, FiniteSets, TLC

\* ------------------------------------------------------------------ bounds

NumAppends == 2       \* concurrent Append RPCs
NumPeers == 1         \* replicas of the Route other than the primary
MaxMessages == 1      \* valid messages the Append streams carry after their first, in all
MaxFaults == 1        \* failures and refusals of clients, brokers and transport, in all
SpecLength == 3       \* JournalSpec.Fragment.Length, the target Fragment length
MaxOffset == 3        \* the journal offset up to which a Replicate stream carries content
MaxRevision == 2       \* transactions the Etcd store of a KeySpace commits
MaxAllocOps == 2       \* changes of Member keys made from outside the Allocator
NumAllocItems == 1     \* Items the fixture inserts in the Allocator KeySpace
AllocTxnOps == 4       \* maxTxnOps while the Allocator of the fixture serves
MaxTxnCalls == 5       \* calls of If, Then, Checkpoint and Commit on a batchedTxn
NumItems == 3          \* Item IDs that Items and Assignments of a converge pass bear
MaxSlots == 2          \* Assignments of one Item ID in a converge pass
MaxWrites == 2         \* calls of WriteClient.ReadFrom
MaxPutFailures == 1    \* Puts of the WriteClient's workers that fail
NumCallers == 2        \* goroutines calling Do of one Client
MaxLater == 4          \* reads of one Append stream after its first message

\* The compares, and the ops, that batchedTxn puts in one transaction.
maxTxnOps == 128

Appends == 1..NumAppends
Peers == 1..NumPeers

\* The content chunks a client may send: different lengths, different bytes.
ContentChunks == {<<1>>, <<2, 3>>}

\* JournalSpec.Fragment of the journal served (newTestJournal).
SpecCodec == "SNAPPY"
SpecStores == <<>>

\* ---------------------------------------------------------------- digests

\* The running SHA-1 of reqSummer, as a fold over the bytes written so far:
\* sha1.New() is the state SHA1New, Write folds each byte into the state, and
\* Sum(nil) reads the state.  Writing chunk by chunk and writing the
\* concatenation at once give the same digest, as for the real hash.
SHA1New == 7

RECURSIVE SHA1Write(_, _)
SHA1Write(h, bytes) ==
    IF bytes = <<>> THEN h
    ELSE SHA1Write((h * 31 + Head(bytes)) % 1009, Tail(bytes))

\* A digest that forgets the content: that of no bytes at all.
sumOfNothing(bytes) == SHA1Write(SHA1New, <<>>)

sumOf(bytes) == SHA1Write(SHA1New, bytes)

\* -------------------------------------------------------------- fragments

\* pb.Fragment (the Journal is the one journal of the model).
Fragment(begin, end, sum, codec, store) ==
    [Begin |-> begin, End |-> end, Sum |-> sum,
     CompressionCodec |-> codec, BackingStore |-> store]

ZeroFragment == Fragment(0, 0, 0, "INVALID", "")

ContentLength(f) == f.End - f.Begin

\* updateProposal(cur, spec): the Fragment to propose before an Append, and
\* whether it differs from cur.
updateProposalNext(cur) ==
    [cur EXCEPT !.Begin = cur.End,
                !.CompressionCodec = SpecCodec,
                !.BackingStore = IF Len(SpecStores) # 0 THEN SpecStores[1] ELSE ""]

\* An updateProposal that rolls whatever the Fragment holds.
updateProposalWhateverLength(cur) ==
    [proposal |-> updateProposalNext(cur),
     update |-> updateProposalNext(cur) # cur]

updateProposal(cur) ==
    IF ContentLength(cur) > 0 /\ ContentLength(cur) < SpecLength
    THEN [proposal |-> cur, update |-> FALSE]
    ELSE [proposal |-> updateProposalNext(cur),
          update |-> updateProposalNext(cur) # cur]

\* ------------------------------------------------------------------ spool

\* The Spool of the local replica: the committed Fragment and the content
\* accepted since (delta), not yet committed.

\* Spool.Next(): the candidate Fragment a commit of the accepted content gives:
\* Begin is the current End, End lies past it by the accepted content, and the
\* Sum continues the committed Sum when the Fragment is continued.
SpoolNext(sp) ==
    [sp.Fragment EXCEPT
        !.Begin = sp.Fragment.End,
        !.End = sp.Fragment.End + Len(sp.delta),
        !.Sum = SHA1Write(IF ContentLength(sp.Fragment) > 0
                          THEN sp.Fragment.Sum ELSE SHA1New, sp.delta)]

\* Spool.Apply of a content request: accepted when ContentDelta is the length
\* of the content accepted so far.
SpoolApplyContent(sp, content, contentDelta) ==
    IF contentDelta = Len(sp.delta)
    THEN [spool |-> [sp EXCEPT !.delta = sp.delta \o content], status |-> "OK"]
    ELSE [spool |-> sp, status |-> "FRAGMENT_MISMATCH"]

\* Spool.Apply of a proposal: the committed Fragment itself rolls the accepted
\* content back; Next() commits it (End advances, Begin stays); an empty
\* Fragment at or past the End rolls the Spool to a new Fragment.
SpoolApplyProposal(sp, proposal) ==
    IF proposal = sp.Fragment
    THEN [spool |-> [sp EXCEPT !.delta = <<>>], status |-> "OK"]
    ELSE IF proposal = SpoolNext(sp)
    THEN [spool |-> [Fragment |-> [sp.Fragment EXCEPT !.End = proposal.End,
                                                      !.Sum = proposal.Sum],
                     delta |-> <<>>],
          status |-> "OK"]
    ELSE IF ContentLength(proposal) = 0 /\ proposal.Begin >= sp.Fragment.End
    THEN [spool |-> [Fragment |-> proposal, delta |-> <<>>], status |-> "OK"]
    ELSE [spool |-> sp, status |-> "FRAGMENT_MISMATCH"]

\* --------------------------------------------------------------- requests

\* pb.ReplicateRequest as scattered by the appender.
ProposalRequest(proposal, ack) ==
    [kind |-> "proposal", Proposal |-> proposal, Acknowledge |-> ack,
     Content |-> <<>>, ContentDelta |-> 0]

ContentRequest(content, delta) ==
    [kind |-> "content", Proposal |-> ZeroFragment, Acknowledge |-> FALSE,
     Content |-> content, ContentDelta |-> delta]

\* pb.AppendRequest: a Journal (JournalValid: whether Journal.Validate accepts
\* it) and Content.
AppendRequest(journal, valid, content) ==
    [Journal |-> journal, JournalValid |-> valid, Content |-> content]

\* AppendRequest.Validate: a message that carries a Journal is valid only if
\* the Journal is and no Content comes with it; one without a Journal must
\* carry Content.
AppendRequestValidate(m) ==
    IF m.Journal # ""
    THEN IF ~m.JournalValid THEN "invalid Journal"
         ELSE IF Len(m.Content) # 0 THEN "unexpected Content" ELSE "nil"
    ELSE IF Len(m.Content) = 0 THEN "expected Content" ELSE "nil"

\* What stream.RecvMsg may hand to onRecv: a message, io.EOF, or a failure of
\* the client stream.
ClientMessages ==
    {AppendRequest("", TRUE, c) : c \in ContentChunks}
        \cup {AppendRequest("a/journal", TRUE, <<1>>)}

\* (A read error stands for every error of RecvMsg other than io.EOF, the
\* cancellation of the RPC's context among them: onRecv treats them alike.)
ClientErrors == {"read error"}

RecvResults ==
    {[req |-> m, err |-> "nil"] : m \in ClientMessages}
        \cup {[req |-> AppendRequest("", TRUE, <<>>), err |-> e] :
                e \in ClientErrors \cup {"EOF"}}

\* --------------------------------------------------------------- pipeline

\* A pipeline: per peer the send and receive errors of its stream and the
\* owners of the acknowledged requests it has still to answer (pending), in
\* the order sent; the error of the local Spool (localErr); the barrier chain
\* (readBarrierCh is the channel the next barrier() waits for, closedChs the
\* channels closed so far); and whether closeSend was called.
NewPipeline(header) ==
    [Header |-> header,
     sendErrs |-> [q \in Peers |-> "nil"],
     recvErrs |-> [q \in Peers |-> "nil"],
     localErr |-> "nil",
     pending |-> [q \in Peers |-> <<>>],
     readBarrierCh |-> 0,
     closedChs |-> {0},
     sendClosed |-> FALSE]

\* The first non-nil error of errs, in peer order.
FirstErr(errs) ==
    IF \A q \in Peers : errs[q] = "nil" THEN "nil"
    ELSE errs[CHOOSE q \in Peers :
                 errs[q] # "nil" /\ \A r \in Peers : r < q => errs[r] = "nil"]

\* pln.sendErr(): the local Spool's error first (the primary is slot 0), then
\* the peers' in Route order.
PlnSendErr(pl) == IF pl.localErr # "nil" THEN pl.localErr ELSE FirstErr(pl.sendErrs)

\* pln.recvErr().
PlnRecvErr(pl) == FirstErr(pl.recvErrs)

\* pln.scatter(req) by owner: the request goes to every peer whose stream has
\* not failed (the sends to the peers of `failing` fail now), an acknowledged
\* one is then owed a response; and it is applied to the local Spool.
PlnScatter(pl, sp, req, owner, failing) ==
    LET applied == IF req.kind = "content"
                   THEN SpoolApplyContent(sp, req.Content, req.ContentDelta)
                   ELSE SpoolApplyProposal(sp, req.Proposal)
        live == {q \in Peers : pl.sendErrs[q] = "nil"}
    IN  [pln |-> [pl EXCEPT
            !.sendErrs = [q \in Peers |->
                IF q \in live /\ q \in failing THEN "send error" ELSE pl.sendErrs[q]],
            !.pending = [q \in Peers |->
                IF q \in live /\ q \notin failing /\ req.Acknowledge
                THEN Append(pl.pending[q], owner) ELSE pl.pending[q]],
            !.localErr = IF pl.localErr = "nil" /\ applied.status # "OK"
                         THEN "spool error" ELSE pl.localErr],
         spool |-> IF pl.localErr = "nil" THEN applied.spool ELSE sp]

\* pln.barrier(): the channel to wait for is the one the previous barrier()
\* made (closed from the start for the first), and a new channel, to close
\* after, takes its place.
PlnBarrier(pl) ==
    [waitFor |-> pl.readBarrierCh,
     closeAfter |-> pl.readBarrierCh + 1,
     pln |-> [pl EXCEPT !.readBarrierCh = pl.readBarrierCh + 1]]

\* What one read of a peer's stream gives the primary: the response to the
\* oldest acknowledged request still unanswered (the peer answers as `answer`
\* says), or the end of the stream when nothing is owed.
PeerRead(pl, q, answer) ==
    IF pl.pending[q] # <<>>
    THEN [owner |-> Head(pl.pending[q]),
          status |-> IF answer = "error" THEN "nil" ELSE answer,
          err |-> IF answer = "error" THEN "recv error" ELSE "nil"]
    ELSE [owner |-> 0, status |-> "nil",
          err |-> IF answer = "error" \/ pl.sendErrs[q] # "nil"
                  THEN "recv error" ELSE "EOF"]

\* pln.gather(): one read of every stream that has no receive error yet.
PlnGather(pl, answers) ==
    [pl EXCEPT
        !.recvErrs = [q \in Peers |->
            IF pl.recvErrs[q] = "nil" THEN PeerRead(pl, q, answers[q]).err
            ELSE pl.recvErrs[q]],
        !.pending = [q \in Peers |->
            IF pl.recvErrs[q] = "nil" /\ pl.pending[q] # <<>>
            THEN Tail(pl.pending[q]) ELSE pl.pending[q]]]

\* The owners of the responses one gather() of pl reads.
GatherOwners(pl) ==
    {Head(pl.pending[q]) : q \in {r \in Peers : pl.recvErrs[r] = "nil" /\ pl.pending[r] # <<>>}}

\* pln.gatherOK(): gather, and a response whose Status is not OK is an error.
PlnGatherOK(pl, answers) ==
    LET got == PlnGather(pl, answers)
    IN  [got EXCEPT
            !.recvErrs = [q \in Peers |->
                IF pl.recvErrs[q] = "nil" /\ got.recvErrs[q] = "nil"
                   /\ PeerRead(pl, q, answers[q]).status # "OK"
                THEN "unexpected !OK response" ELSE got.recvErrs[q]]]

\* pln.gatherEOF(): gather, where EOF is what is expected of every stream and
\* a response is an error.
PlnGatherEOF(pl, answers) ==
    LET got == PlnGather(pl, answers)
    IN  [got EXCEPT
            !.recvErrs = [q \in Peers |->
                IF got.recvErrs[q] = "EOF" THEN "nil"
                ELSE IF got.recvErrs[q] = "nil" THEN "unexpected response"
                ELSE got.recvErrs[q]]]

\* The streams one gather() of pl reads.
GatherReads(pl) == {q \in Peers : pl.recvErrs[q] = "nil"}

\* What the peers answer to one gather() of pl: a peer that owes a response
\* accepts (OK), refuses (FRAGMENT_MISMATCH) or fails; one that owes none can
\* only fail, or end its stream.
PeerAnswer(pl, q) ==
    IF pl.recvErrs[q] # "nil" THEN {"OK"}
    ELSE IF pl.pending[q] # <<>> THEN {"OK", "FRAGMENT_MISMATCH", "error"}
    ELSE IF pl.sendErrs[q] # "nil" THEN {"OK"}
    ELSE {"OK", "error"}

PeerAnswers(pl) ==
    {ans \in [Peers -> {"OK", "FRAGMENT_MISMATCH", "error"}] :
        \A q \in Peers : ans[q] \in PeerAnswer(pl, q)}

\* The answers that are failures or refusals.
BadAnswers(ans) == Cardinality({q \in Peers : ans[q] # "OK"})

\* ------------------------------------------------------------------ state

VARIABLES
    pc,          \* pc[a]: where Append a stands in Service.Append / serveAppend
    rev,         \* rev[a]: Service.Append's rev, the minEtcdRevision of its next resolve
    hdr,         \* hdr[a]: the Revision of the Header of a's last resolution
    myPln,       \* myPln[a]: the pipeline a serves on (0: none)
    appender,    \* appender[a]: reqFragment (hasFragment: not nil), reqSummer, reqErr
    barrier,     \* barrier[a]: the waitFor and closeAfter channels of a
    plnSendErr,  \* plnSendErr[a]: serveAppend's local of that name
    rpc,         \* rpc[a]: what the RPC returned: its error, the response sent
    ksRevision,  \* the Revision of the KeySpace's Header
    pipelineCh,  \* replica.pipelineCh, of depth 1: <<>>, <<0>> (nil) or <<pipeline>>
    plns,        \* the pipelines built so far, by number
    spool,       \* the Spool of the local replica
    scattered,   \* history: the requests a scattered, in order
    order,       \* history: the Appends in the order they released the send half,
                 \* each with its pipeline
    gathered,    \* history: the owners of the responses a's gatherOK read
    spoolAt,     \* history: the committed Fragment as a began, and as it released
    messages,    \* the messages received so far after the first of each stream
    faults,      \* the failures and refusals produced so far
    replica,     \* a replica serving one Replicate stream: Spool, index, last exchange
    etcd,        \* the Etcd store a KeySpace mirrors: its committed transactions
    ks,          \* a KeySpace: Header and KeyValues
    watch,       \* KeySpace.Watch of ks, its context and its signal channel
    ksApplied,   \* the last Load or apply of ks: what it was given and what it returned
    allocEtcd,   \* the Etcd store of an Allocator KeySpace, at each revision
    serve,       \* serve[m]: Allocator.Serve of Member m, its goroutine and KeySpace
    btxn,        \* a batchedTxn of the leader, the transactions it issued and their effect
    conv,        \* one call of converge: its allocState, desired and batchedTxn
    flow,        \* the flow network of the leader and the desired Assignments it solved for
    stream,      \* one Append stream after its first message: what was read and scattered
    validated,   \* the last message given to a Validate, and the error returned
    wclient,     \* a WriteClient: its index, queue, pending writes, callers and workers
    client       \* a Client: its locationCache and its last Do

vars == <<pc, rev, hdr, myPln, appender, barrier, plnSendErr, rpc, ksRevision,
          pipelineCh, plns, spool, scattered, order, gathered, spoolAt,
          messages, faults>>

\* A Route that names no broker.
ZeroRoute == [Brokers |-> <<>>, Primary |-> 0 - 1]

\* An AppendResponse with no field set (Route and Commit are pointers: nil),
\* not sent.
\* Etcd's ResponseHeader (the fields the KeySpace checks).
ResponseHeader(cluster, revision) ==
    [ClusterId |-> cluster, Revision |-> revision]

\* A KeySpace that has loaded nothing.
NewKeySpace == [Header |-> ResponseHeader(0, 0), KeyValues |-> <<>>]

\* What ksApplied holds before the first Load or apply.  It records of the
\* last Load or apply: which it was, the error it returned, the revision at
\* which an accepted batch began, whether it was given the batch that the
\* apply before it had accepted, and whether it changed the KeySpace.
NotApplied == [op |-> "none", from |-> 0, err |-> "nil", again |-> FALSE,
               changed |-> FALSE]

\* KeySpace.Watch before it is called: pc is where Watch stands, err what it
\* returned, ctxDone whether its context is cancelled, closed whether the
\* signal channel is, waiting whether a receiver waits on the channel, and
\* delivered the signals received so far.
NoWatch == [pc |-> "idle", err |-> "nil", ctxDone |-> FALSE, closed |-> FALSE,
            waiting |-> FALSE, delivered |-> 0]

\* The Member keys of the Allocator KeySpace, numbered in key order: 1 is
\* zone-a|m00000, 2 is zone-a|m00002, 3 is zone-b|leader and 4 is
\* zone-b|m00001.  LeaderKey is the key the fixture inserts first, and
\* AnnouncedMembers is the half of the other Members that the fixture
\* announces; the other half is announced by later inserts.
AllocMembers == {1, 2, 3, 4}
LeaderKey == 3
AnnouncedMembers == {1, 4}

\* The Items the fixture inserts, by ID, and the IDs an Item key may have:
\* one more Item may be inserted later.
AllocItems == 1..NumAllocItems
AllocItemIDs == 1..(NumAllocItems + 1)

\* The R of the values the fixture inserts: of the leader key, of the other
\* Member keys, and of the Item keys.
LeaderR == 1
MemberR == 45
ItemR == 3

\* A key that Etcd does not hold: its CreateRevision is 0.
NoMember == [R |-> 0, CreateRevision |-> 0, ModRevision |-> 0]

\* The store as the fixture makes it, in three transactions: the leader key
\* alone, then the announced Members, then the Items; no Assignment.  In a
\* state of the store, members is the value of each Member key, items the
\* Items it holds, and asn its Assignments, each the pair of an Item and the
\* Member the Item is assigned to.  Revisions are counted from the first
\* insert of the fixture.
AllocFixture ==
    LET leader ==
            [members |-> [m \in AllocMembers |->
                             IF m = LeaderKey
                             THEN [R |-> LeaderR, CreateRevision |-> 1,
                                   ModRevision |-> 1]
                             ELSE NoMember],
             items |-> {},
             asn |-> {}]
        announced ==
            [leader EXCEPT !.members =
                [m \in AllocMembers |->
                    IF m \in AnnouncedMembers
                    THEN [R |-> MemberR, CreateRevision |-> 2,
                          ModRevision |-> 2]
                    ELSE leader.members[m]]]
    IN  <<leader, announced, [announced EXCEPT !.items = AllocItems]>>

\* Allocator.Serve of a Member before it is called.  g is where the goroutine
\* of Serve stands and w where Serve itself does (in KeySpace.Watch); ksRev
\* is the Revision of the Header of its KeySpace; failErr, txnResponse (the
\* Revision of its Header, 0: nil), lastNetworkHash and desired are the
\* locals of Serve; ctx is "done" once cancel was called and "cancelled"
\* once the caller cancelled its context; err is what Serve returned; broke
\* records why the goroutine left its loop and at which Revision; round
\* counts the convergence rounds completed and roundErr is the error of the
\* last converge and Commit; solved tells whether the last round of the
\* leader ran the solver, and solvedFor is the networkHash of the state the
\* desired Assignments were extracted from; builtAt is the Revision of the
\* KeySpace the last newAllocState of the goroutine was built from; issued
\* are the transactions its last round as the leader gave to txnDo, each
\* with the call that issued it and with what became of it.  g is "loop" at
\* the head of the loop, "txn" while a round of the leader awaits the answer
\* of the store to a transaction after its first, "unlocked" once the round
\* has released the read lock, "waiting" in the receive from signalCh.
NotServing ==
    [g |-> "idle", w |-> "idle", ksRev |-> 0, failErr |-> "nil",
     txnResponse |-> 0, lastNetworkHash |-> <<>>, desired |-> {},
     ctx |-> "live", err |-> "nil", broke |-> "no", brokeAt |-> 0,
     round |-> 0, roundErr |-> "nil", solved |-> FALSE, solvedFor |-> <<>>,
     builtAt |-> 0, issued |-> <<>>]

\* The compares a batchedTxn asserts with every transaction: Serve gives it
\* one, that the ModRevision of the local Member key is unchanged.  Compares
\* and ops are kept in runs: n of them, added for checkpoint cp (0: fixed).
FixedCmps == <<[cp |-> 0, n |-> 1]>>

\* newBatchedTxn(ctx, kv, fixedCmps...): nothing queued.
NewBatchedTxn ==
    [cmps |-> <<>>, ops |-> <<>>, nextCmps |-> <<>>, nextOps |-> <<>>,
     fixedCmps |-> FixedCmps]

\* A batchedTxn before its first call.  b is the batchedTxn; cp numbers the
\* checkpoint being built and calls counts the calls made; issued are the
\* transactions given to txnDo, each with what became of it; applied are
\* the ops that took effect, each with whether the local Member key had been
\* modified by then; modified tells whether it has been; err is what the
\* last Checkpoint or Commit returned ("panic": it panicked); added are the
\* compares and ops of each checkpoint as Checkpoint found them.
NoTxnCalls ==
    [b |-> NewBatchedTxn, cp |-> 1, calls |-> 0, issued |-> <<>>,
     applied |-> <<>>, modified |-> FALSE, err |-> "nil", added |-> <<>>]

\* The variables of the components other than the Append path.
\* Before converge is called: as is the allocState and desired the desired
\* Assignments it is given, flush what becomes of a transaction the pass
\* issues, and txn the batchedTxn with what the pass returned (err), the
\* transactions it issued and the number cp of the checkpoint being built.
NoConverge ==
    [pc |-> "idle", as |-> [items |-> <<>>, assignments |-> <<>>],
     desired |-> <<>>, flush |-> "ok",
     txn |-> [b |-> NewBatchedTxn, err |-> "nil", issued |-> <<>>, cp |-> 1]]

\* Before the leader builds a flow network: members gives the zone and the R
\* of each Member, items the R of each Item, and desired the Assignments
\* extracted from the maximum flow, as pairs of an Item and a Member.
NoFlow == [pc |-> "idle", members |-> <<>>, items |-> <<>>, desired |-> {}]

others == <<replica, etcd, ks, ksApplied, watch, allocEtcd, serve, btxn, conv,
            flow, stream, validated, wclient, client>>

\* What the steps of one component leave alone.
allocator == <<allocEtcd, serve>>
clients == <<validated, wclient, client>>
leader == <<btxn, conv, flow>>
exceptReplica == <<vars, etcd, ks, ksApplied, watch, allocator, leader, stream, clients>>
exceptEtcd == <<vars, replica, ks, ksApplied, watch, allocator, leader, stream, clients>>
exceptKeySpace == <<vars, replica, etcd, watch, allocator, leader, stream, clients>>
exceptAllocator == <<vars, replica, etcd, ks, ksApplied, watch, leader, stream, clients>>
exceptLeader ==
    <<vars, replica, etcd, ks, ksApplied, watch, allocator, conv, flow, stream, clients>>
exceptConverge ==
    <<vars, replica, etcd, ks, ksApplied, watch, allocator, btxn, flow, stream, clients>>
exceptFlow ==
    <<vars, replica, etcd, ks, ksApplied, watch, allocator, btxn, conv, stream, clients>>
exceptStream ==
    <<vars, replica, etcd, ks, ksApplied, watch, allocator, leader, clients>>
exceptValidate ==
    <<vars, replica, etcd, ks, ksApplied, watch, allocator, leader, stream,
      wclient, client>>
exceptWriteClient ==
    <<vars, replica, etcd, ks, ksApplied, watch, allocator, leader, stream,
      validated, client>>
exceptClient ==
    <<vars, replica, etcd, ks, ksApplied, watch, allocator, leader, stream,
      validated, wclient>>

allVars == <<vars, others>>

\* A replica before its first ReplicateRequest: a new Spool, an empty index.
\* bytes is the committed content of the Spool's Fragment; req and resp are
\* the last request received and the response sent for it, if any.
NoReplicateRequest ==
    [kind |-> "none", Proposal |-> ZeroFragment, Acknowledge |-> FALSE,
     Content |-> <<>>, ContentDelta |-> 0]

NewReplica ==
    [spool |-> [Fragment |-> ZeroFragment, delta |-> <<>>],
     EndOffset |-> 0, bytes |-> <<>>,
     req |-> NoReplicateRequest, resp |-> "none"]

NoResponse == [sent |-> FALSE, Status |-> "nil", Header |-> 0,
               hasRoute |-> FALSE, Route |-> ZeroRoute,
               hasCommit |-> FALSE, Commit |-> ZeroFragment]

\* The locals of an Append RPC that has not begun, or has returned.
NoAppender == [reqFragment |-> ZeroFragment, hasFragment |-> FALSE,
               reqSummer |-> SHA1New, reqErr |-> "nil"]
NoBarrier == [waitFor |-> 0, closeAfter |-> 0]
NoSpoolAt == [before |-> ZeroFragment, begun |-> ZeroFragment,
              released |-> ZeroFragment]

\* An Append stream before serveAppend: recvd are the results of RecvMsg
\* handed to onRecv and forwarded what onRecv scattered for each; pln, spool
\* and appender are those of the Append, and more tells whether the loop of
\* serveAppend goes on.
NoStream ==
    [pc |-> "idle", recvd |-> <<>>, forwarded |-> <<>>, pln |-> 0,
     spool |-> [Fragment |-> ZeroFragment, delta |-> <<>>],
     appender |-> NoAppender, more |-> FALSE,
     before |-> ZeroFragment, proposed |-> <<>>]

\* Before any Validate is called.
NoValidate == [kind |-> "none", m |-> <<>>, err |-> "nil"]

\* gazetteWriteConcurrency: the serveWrites workers of a WriteClient.
writeConcurrency == 2
Workers == 1..writeConcurrency

\* The spool size past which a pending write takes no more content.
kMaxWriteSpoolSize == 134217728

\* The journals written through the WriteClient.
WriteJournals == {"a", "b"}

\* NewWriteClient: nothing indexed, nothing queued, every worker waiting on
\* the queue.  writes are the pendingWrites obtained so far, by number, and
\* calls the ReadFrom calls made so far; enqueued and puts are histories:
\* the writes in the order they were sent to writeQueue, and the Puts in the
\* order the broker answered them.  queueClosed is whether writeQueue is
\* closed, closer where the call of Close stands, resolves the number of
\* closed.Resolve() calls made, and panicked whether a goroutine of the
\* process has panicked.
NewWriteClient ==
    [writeIndex |-> [j \in WriteJournals |-> 0],
     writeQueue |-> <<>>,
     writes |-> <<>>,
     calls |-> <<>>,
     workers |-> [w \in Workers |-> [pc |-> "recv", write |-> 0, owned |-> <<>>]],
     enqueued |-> <<>>,
     puts |-> <<>>,
     failures |-> 0,
     queueClosed |-> FALSE,
     closer |-> "none",
     resolves |-> 0,
     panicked |-> FALSE]

\* The endpoints a Client is sent to, and the paths requested of it.
ClientHosts == {"h1", "h2"}
ClientPaths == {"/a", "/b"}
defaultEndpoint == "default"

\* The goroutines that call Do of one Client.
ClientCallers == 1..NumCallers

\* NewClient: an empty locationCache (<<>>: no entry).  doing[c] is the Do
\* that caller c is in, if any: the path it requested and the URL its request
\* was rewritten to and sent to.  last is the last Do that returned: the path
\* requested, the host and path the request was sent to, and what the
\* transport returned.
NewClient ==
    [locationCache |-> [p \in ClientPaths |-> <<>>],
     doing |-> [c \in ClientCallers |-> <<>>],
     last |-> [path |-> "", host |-> "", sent |-> "",
               outcome |-> [kind |-> "none", location |-> <<>>]]]

Init ==
    /\ pc = [a \in Appends |-> "start"]
    /\ rev = [a \in Appends |-> 0]
    /\ hdr = [a \in Appends |-> 0]
    /\ myPln = [a \in Appends |-> 0]
    /\ appender = [a \in Appends |-> NoAppender]
    /\ barrier = [a \in Appends |-> NoBarrier]
    /\ plnSendErr = [a \in Appends |-> "nil"]
    /\ rpc = [a \in Appends |-> [err |-> "nil", resp |-> NoResponse]]
    /\ ksRevision = 1
    /\ pipelineCh = <<0>>
    /\ plns = <<>>
    /\ spool = [Fragment |-> ZeroFragment, delta |-> <<>>]
    /\ scattered = [a \in Appends |-> <<>>]
    /\ order = <<>>
    /\ gathered = [a \in Appends |-> {}]
    /\ spoolAt = [a \in Appends |-> NoSpoolAt]
    /\ messages = 0
    /\ faults = 0
    /\ replica = NewReplica
    /\ etcd = <<>>
    /\ ks = NewKeySpace
    /\ ksApplied = NotApplied
    /\ watch = NoWatch
    /\ allocEtcd = AllocFixture
    /\ serve = [m \in AllocMembers |-> NotServing]
    /\ btxn = NoTxnCalls
    /\ conv = NoConverge
    /\ flow = NoFlow
    /\ stream = NoStream
    /\ validated = NoValidate
    /\ wclient = NewWriteClient
    /\ client = NewClient

\* The environment produces n more failures or refusals, within its budget.
Fault(n) ==
    /\ faults + n <= MaxFaults
    /\ faults' = faults + n

\* The RPC of a returns err, having sent resp (NoResponse: none); its locals
\* are gone with it.
Return(a, err, resp) ==
    /\ pc' = [pc EXCEPT ![a] = "done"]
    /\ rpc' = [rpc EXCEPT ![a] = [err |-> err, resp |-> resp]]
    /\ rev' = [rev EXCEPT ![a] = 0]
    /\ hdr' = [hdr EXCEPT ![a] = 0]
    /\ myPln' = [myPln EXCEPT ![a] = 0]
    /\ appender' = [appender EXCEPT ![a] = NoAppender]
    /\ barrier' = [barrier EXCEPT ![a] = NoBarrier]
    /\ plnSendErr' = [plnSendErr EXCEPT ![a] = "nil"]
    /\ scattered' = [scattered EXCEPT ![a] = <<>>]
    /\ gathered' = [gathered EXCEPT ![a] = {}]
    /\ spoolAt' = [spoolAt EXCEPT ![a] = NoSpoolAt]

\* The locals of the Append RPCs.
locals == <<rev, hdr, myPln, appender, barrier, plnSendErr, scattered, gathered,
            spoolAt>>

\* ---------------------------------------------------------------- appender

\* The sends that may fail in a scatter on pl: those to peers whose stream has
\* not failed yet.
MayFail(pl) == SUBSET {q \in Peers : pl.sendErrs[q] = "nil"}

\* An appender whose reqFragment takes the Begin of the Spool's Fragment.
NewAppenderFromBegin(f) ==
    [reqFragment |-> Fragment(f.Begin, f.End, 0, "INVALID", ""),
     hasFragment |-> TRUE,
     reqSummer |-> SHA1New,
     reqErr |-> "nil"]

\* An appender that starts, empty, at the Begin of the Spool's Fragment.
NewAppenderAtBegin(f) ==
    [reqFragment |-> Fragment(f.Begin, f.Begin, 0, "INVALID", ""),
     hasFragment |-> TRUE,
     reqSummer |-> SHA1New,
     reqErr |-> "nil"]

\* The appender beginAppending returns: an empty reqFragment at the End of
\* the Spool's Fragment f, and a fresh reqSummer.
NewAppender(f) ==
    [reqFragment |-> Fragment(f.End, f.End, 0, "INVALID", ""),
     hasFragment |-> TRUE,
     reqSummer |-> SHA1New,
     reqErr |-> "nil"]

\* What beginAppending scatters on a Spool whose Fragment is f: the proposal
\* of updateProposal if it is an update (no acknowledgement asked), or nothing.
BeginRequests(f) ==
    IF updateProposal(f).update
    THEN <<ProposalRequest(updateProposal(f).proposal, FALSE)>>
    ELSE <<>>

\* beginAppending by owner on pipeline pl and Spool sp: the Fragment is rolled
\* forward if updateProposal says so, and the appender starts at the End of
\* the Spool's Fragment.
beginAppending(pl, sp, owner, failing) ==
    LET reqs == BeginRequests(sp.Fragment)
        sc == IF reqs # <<>> THEN PlnScatter(pl, sp, reqs[1], owner, failing)
              ELSE [pln |-> pl, spool |-> sp]
    IN  [pln |-> sc.pln, spool |-> sc.spool, scattered |-> reqs,
         appender |-> NewAppender(sc.spool.Fragment)]

\* An onRecv that proposes the committed Fragment whatever ended the input.
OnRecvProposalRollback(sp, err) == sp.Fragment

\* An onRecv that proposes Spool.Next() whatever ended the input.
OnRecvProposalCommit(sp, err) == SpoolNext(sp)

\* appender.onRecv at the end of the input (err # nil): the proposal is
\* Spool.Next() on EOF, and the committed Fragment on any other error.
OnRecvProposal(sp, err) == IF err = "EOF" THEN SpoolNext(sp) ELSE sp.Fragment

\* The appender after the end of the input: reqFragment gets its Sum; any
\* error but EOF sets reqErr and clears reqFragment.
OnRecvEndAppender(ap, err) ==
    IF err = "EOF"
    THEN [ap EXCEPT !.reqFragment.Sum = ap.reqSummer]
    ELSE [ap EXCEPT !.reqFragment = ZeroFragment, !.hasFragment = FALSE,
                    !.reqErr = err]

\* An onRecv that forwards Content with the journal offset it lands at as
\* its ContentDelta.
OnRecvForwardAtEnd(ap, req) == ContentRequest(req.Content, ap.reqFragment.End)

\* The request onRecv forwards a valid message as: its Content, with
\* ContentDelta the length of reqFragment.
OnRecvForward(ap, req) == ContentRequest(req.Content, ContentLength(ap.reqFragment))

\* The appender after a valid message: its Content is summed and added to
\* reqFragment.
OnRecvContentAppender(ap, req) ==
    [ap EXCEPT !.reqSummer = SHA1Write(@, req.Content),
               !.reqFragment.End = @ + Len(req.Content)]

\* The error of Recv, else that of req.Validate().
RecvErr(in) == IF in.err # "nil" THEN in.err ELSE AppendRequestValidate(in.req)

\* appender.onRecv(req, err) by owner on pipeline pl and Spool sp: what it
\* scatters (req), the pipeline, Spool and appender after, and whether the
\* loop of serveAppend goes on (it does after a valid message all sends of
\* which succeeded).
onRecv(pl, sp, ap, owner, in, failing) ==
    LET err == RecvErr(in)
        req == IF err # "nil" THEN ProposalRequest(OnRecvProposal(sp, err), TRUE)
               ELSE OnRecvForward(ap, in.req)
        sc == PlnScatter(pl, sp, req, owner, failing)
    IN  [req |-> req, pln |-> sc.pln, spool |-> sc.spool,
         appender |-> IF err # "nil" THEN OnRecvEndAppender(ap, err)
                      ELSE OnRecvContentAppender(ap, in.req),
         more |-> err = "nil" /\ PlnSendErr(sc.pln) = "nil"]

\* ------------------------------------------------------------- serveAppend

\* A serveAppend that hands the pipeline to releaseCh whatever became of its
\* sends.
ReleasedAnyway(pln, sendErr) == pln

\* What serveAppend hands to releaseCh: the pipeline, or nil after a send error.
Released(pln, sendErr) == IF sendErr = "nil" THEN pln ELSE 0

\* A serveAppend that releases the send half without a barrier(): it waits
\* for nothing (the channel closed from the start).
ReleaseOfUnchained(pl) ==
    [waitFor |-> 0, closeAfter |-> 0,
     plnSendErr |-> PlnSendErr(pl),
     pln |-> [pl EXCEPT !.sendClosed = (PlnSendErr(pl) # "nil")]]

\* serveAppend after its loop, on pipeline pl: pln.barrier(), pln.sendErr(),
\* and pln.closeSend() after a send error.
ReleaseOf(pl) ==
    LET b == PlnBarrier(pl)
    IN  [waitFor |-> b.waitFor, closeAfter |-> b.closeAfter,
         plnSendErr |-> PlnSendErr(pl),
         pln |-> [b.pln EXCEPT !.sendClosed = (PlnSendErr(pl) # "nil")]]

\* serveAppend of a on pipeline number p, acquired as pl with the Spool sp:
\* beginAppending; a then reads its stream.
ServeAppendBegin(a, p, pl, sp) ==
    \E failing \in (IF BeginRequests(sp.Fragment) # <<>> THEN MayFail(pl) ELSE {{}}) :
        LET bg == beginAppending(pl, sp, a, failing)
        IN  /\ Fault(Cardinality(failing))
            /\ plns' = IF p > Len(plns) THEN Append(plns, bg.pln)
                       ELSE [plns EXCEPT ![p] = bg.pln]
            /\ spool' = bg.spool
            /\ scattered' = [scattered EXCEPT ![a] = bg.scattered]
            /\ appender' = [appender EXCEPT ![a] = bg.appender]
            /\ spoolAt' = [spoolAt EXCEPT ![a] =
                  [@ EXCEPT !.before = sp.Fragment, !.begun = bg.spool.Fragment]]
            /\ myPln' = [myPln EXCEPT ![a] = p]
            /\ pipelineCh' = <<>>
            /\ rev' = [rev EXCEPT ![a] = 0]
            /\ pc' = [pc EXCEPT ![a] = "recv"]
            /\ UNCHANGED <<rpc, hdr, barrier, plnSendErr, gathered>>

\* One turn of serveAppend's loop: onRecv(req, stream.RecvMsg(req)); and, when
\* the loop ends with it, the barrier and the release of the send side: the
\* pipeline goes to releaseCh, or nil after a send error.  (Of the budget of
\* failures the turn takes its failing sends, or one for a client error all
\* sends after which succeed: the rollback a client error makes onRecv
\* scatter may fail in its sends too.)
OnRecv(a) ==
    /\ pc[a] = "recv"
    /\ \E in \in RecvResults, failing \in MayFail(plns[myPln[a]]) :
          /\ Fault(IF failing # {} THEN Cardinality(failing)
                   ELSE IF RecvErr(in) \notin {"nil", "EOF"} THEN 1 ELSE 0)
          /\ IF RecvErr(in) = "nil"
             THEN messages < MaxMessages /\ messages' = messages + 1
             ELSE UNCHANGED messages
          /\ \E on \in {onRecv(plns[myPln[a]], spool, appender[a], a, in, failing)} :
             \E rel \in {ReleaseOf(on.pln)} :
              /\ spool' = on.spool
              /\ scattered' = [scattered EXCEPT ![a] = Append(@, on.req)]
              /\ appender' = [appender EXCEPT ![a] = on.appender]
              /\ IF on.more
                 THEN /\ plns' = [plns EXCEPT ![myPln[a]] = on.pln]
                      /\ UNCHANGED <<pc, barrier, plnSendErr, pipelineCh, order,
                                     spoolAt>>
                 ELSE /\ plns' = [plns EXCEPT ![myPln[a]] = rel.pln]
                      /\ barrier' = [barrier EXCEPT ![a] =
                            [waitFor |-> rel.waitFor, closeAfter |-> rel.closeAfter]]
                      /\ plnSendErr' = [plnSendErr EXCEPT ![a] = rel.plnSendErr]
                      /\ pipelineCh' = <<Released(myPln[a], rel.plnSendErr)>>
                      /\ order' = Append(order, [a |-> a, pln |-> myPln[a]])
                      /\ spoolAt' = [spoolAt EXCEPT ![a] =
                            [@ EXCEPT !.released = on.spool.Fragment]]
                      /\ pc' = [pc EXCEPT ![a] = "wait"]
    /\ UNCHANGED <<rev, hdr, myPln, rpc, ksRevision, gathered>>

\* A serveAppend that does not wait for its turn: it reads at once.
AwaitBarrierSkipped(a) == TRUE

\* <-waitFor: a goes on once the channel it waits for is closed.
AwaitBarrier(a) == barrier[a].waitFor \in plns[myPln[a]].closedChs

\* A read of every stream gather() reads returns: a response is owed, or the
\* stream has ended (its send side was closed, or its send failed).
CanGather(pl) ==
    \A q \in GatherReads(pl) :
        pl.pending[q] # <<>> \/ pl.sendClosed \/ pl.sendErrs[q] # "nil"

\* <-waitFor, then pln.gatherOK(), and pln.gatherEOF() after a send error.
Gather(a) ==
    /\ pc[a] = "wait"
    /\ AwaitBarrier(a)
    /\ CanGather(plns[myPln[a]])
    /\ \E answers \in PeerAnswers(plns[myPln[a]]) :
          LET ok == PlnGatherOK(plns[myPln[a]], answers)
          IN  /\ Fault(BadAnswers(answers))
              /\ plns' = [plns EXCEPT ![myPln[a]] =
                    IF plnSendErr[a] # "nil"
                    THEN PlnGatherEOF(ok, [q \in Peers |-> "OK"]) ELSE ok]
    /\ gathered' = [gathered EXCEPT ![a] = GatherOwners(plns[myPln[a]])]
    /\ pc' = [pc EXCEPT ![a] = "return"]
    /\ UNCHANGED <<rev, hdr, myPln, appender, barrier, plnSendErr, rpc, ksRevision,
                   pipelineCh, spool, scattered, order, spoolAt, messages>>

\* A serveAppend that looks at the three errors in the opposite order:
\* pln.recvErr(), then plnSendErr, then the client's.
ServeAppendErrReversed(reqErr, sendErr, recvErr, sendAndCloseErr) ==
    IF recvErr # "nil" THEN recvErr
    ELSE IF sendErr # "nil" THEN sendErr
    ELSE IF reqErr # "nil" THEN reqErr
    ELSE sendAndCloseErr

\* The error serveAppend returns: reqErr, else plnSendErr, else pln.recvErr(),
\* else that of stream.SendAndClose of the response.
ServeAppendErr(reqErr, sendErr, recvErr, sendAndCloseErr) ==
    IF reqErr # "nil" THEN reqErr
    ELSE IF sendErr # "nil" THEN sendErr
    ELSE IF recvErr # "nil" THEN recvErr
    ELSE sendAndCloseErr

\* Whether serveAppend sends the AppendResponse{Header, Commit}.
ServeAppendResponds(reqErr, sendErr, recvErr) ==
    reqErr = "nil" /\ sendErr = "nil" /\ recvErr = "nil"

\* The AppendResponse of serveAppend.
ServeAppendResponse(pl, ap) ==
    [sent |-> TRUE, Status |-> "OK", Header |-> pl.Header,
     hasRoute |-> FALSE, Route |-> ZeroRoute,
     hasCommit |-> ap.hasFragment, Commit |-> ap.reqFragment]

\* A serveAppend that closes closeAfter only when it returns no error.
ClosedOnSuccess(closed, closeAfter, err) ==
    IF err = "nil" THEN closed \cup {closeAfter} ELSE closed

\* The deferred close(closeAfter) of serveAppend: it runs whatever is
\* returned.
ClosedOnReturn(closed, closeAfter, err) == closed \cup {closeAfter}

\* serveAppend's return: the error or the response, and then the deferred
\* close(closeAfter).
ServeAppendReturn(a) ==
    /\ pc[a] = "return"
    /\ LET pl == plns[myPln[a]]
           responds == ServeAppendResponds(appender[a].reqErr, plnSendErr[a],
                                           PlnRecvErr(pl))
       IN  \E sendAndCloseErr \in
                 {"nil"} \cup (IF responds THEN {"client gone"} ELSE {}) :
              /\ Fault(IF sendAndCloseErr = "nil" THEN 0 ELSE 1)
              /\ Return(a, ServeAppendErr(appender[a].reqErr, plnSendErr[a],
                                          PlnRecvErr(pl), sendAndCloseErr),
                        IF responds THEN ServeAppendResponse(pl, appender[a])
                        ELSE NoResponse)
    /\ plns' = [plns EXCEPT ![myPln[a]].closedChs =
                     ClosedOnReturn(@, barrier[a].closeAfter, rpc'[a].err)]
    /\ UNCHANGED <<ksRevision, pipelineCh, spool, order, messages>>

\* ----------------------------------------------------- AppendResponse.Validate

\* The Status values of the protocol.
Status_name == {"OK", "NOT_FOUND", "WRONG_ROUTE", "FRAGMENT_MISMATCH"}

\* Status.Validate: the Status is one the protocol names.
StatusValidate(x) ==
    IF x \notin Status_name THEN "invalid status" ELSE "nil"

\* Route.Validate: the primary is a broker of the Route, or none (-1).
RouteValidate(route) ==
    IF route.Primary < 0 - 1 \/ route.Primary >= Len(route.Brokers)
    THEN "invalid Primary" ELSE "nil"

\* Fragment.Validate: the offsets are ordered.
FragmentValidate(f) ==
    IF f.Begin > f.End THEN "expected Begin <= End" ELSE "nil"

\* AppendResponse.Validate: the first failure of Status, Route (which must be
\* present) and Commit (which must be present), or nil.
AppendResponseValidate(m) ==
    CASE StatusValidate(m.Status) # "nil" -> "Status"
      [] ~m.hasRoute -> "expected Route"
      [] RouteValidate(m.Route) # "nil" -> "Route"
      [] ~m.hasCommit -> "expected Commit"
      [] FragmentValidate(m.Commit) # "nil" -> "Commit"
      [] OTHER -> "nil"

\* ---------------------------------------------------------- Service.Append

\* What the first stream.Recv() of an Append may give.
FirstResults ==
    {[req |-> AppendRequest("a/journal", TRUE, <<>>), err |-> "nil"],
     [req |-> AppendRequest("a/journal", TRUE, <<1>>), err |-> "nil"],
     [req |-> AppendRequest("", TRUE, <<>>), err |-> "read error"]}

\* What a resolution may be: an error, a Status that is not OK, a peer to
\* proxy to (no local replica) whose Append then answers, or the local
\* replica.
Resolutions == {"error", "NOT_FOUND", "proxy", "local"}

\* AppendResponse{Status, Header}: the response Service.Append sends for a
\* Status that is not OK, and what a peer's Service.Append sends for one.
StatusResponse(status, header) ==
    [NoResponse EXCEPT !.sent = TRUE, !.Status = status, !.Header = header]

\* What stream.SendAndClose may return: nil, or the error of a client stream
\* that is broken.
SendAndCloseErrs == {"nil", "client gone"}

\* What a peer's Service.Append may answer to the proxied request: the
\* response of its serveAppend, which carries its Header and the Commit, or
\* that of a resolution Status that is not OK.  The peer's Header is of the
\* revision the proxied Header named, or of a later one.
PeerAppendResponses ==
    UNION {{[StatusResponse("OK", h) EXCEPT
                !.hasCommit = TRUE,
                !.Commit = Fragment(0, 1, sumOf(<<1>>), SpecCodec, "")],
            StatusResponse("NOT_FOUND", h)} : h \in {ksRevision, ksRevision + 1}}

\* proxyAppend: the error of the dial, of opening or sending on the peer
\* stream, of reading the client stream or of CloseAndRecv is returned and
\* nothing is sent; otherwise what the peer answered is relayed as it is, and
\* the error of SendAndClose is returned.
proxyAppend ==
    {[err |-> "proxy error", resp |-> NoResponse]}
        \cup {[err |-> e, resp |-> r] :
                 e \in SendAndCloseErrs, r \in PeerAppendResponses}

\* What Service.Append returns for a resolution that is not served here: the
\* error of resolve; for a Status that is not OK, the error of SendAndClose
\* of AppendResponse{Status, Header}; without a local replica, what
\* proxyAppend returns.
ResolvedReturns(res) ==
    CASE res = "error" -> {[err |-> "resolve error", resp |-> NoResponse]}
      [] res = "NOT_FOUND" ->
            {[err |-> e, resp |-> StatusResponse("NOT_FOUND", ksRevision)] :
                e \in SendAndCloseErrs}
      [] OTHER -> proxyAppend

\* Whether b has taken the pipeline at least once.  (The RPCs are alike: those
\* that take the pipeline are numbered from 1 in the order they first take it,
\* those that return before they ever take it from NumAppends down in the
\* order they return.)
Acquired(b) == pc[b] \notin {"start", "resolve", "acquire"} \/ rev[b] # 0

\* Whether every RPC numbered after a has returned.
LastToStart(a) == \A b \in Appends : b > a => pc[b] = "done"

\* One resolution in the loop of Service.Append: an error is returned; a
\* Status that is not OK is answered with AppendResponse{Status, Header};
\* without a local replica the Append is proxied; with one, the pipeline is
\* acquired next.
Resolved(a, res) ==
    IF res = "local"
    THEN /\ pc' = [pc EXCEPT ![a] = "acquire"]
         /\ hdr' = [hdr EXCEPT ![a] = ksRevision]
         /\ UNCHANGED <<rpc, faults, rev, myPln, appender, barrier,
                        plnSendErr, scattered, gathered, spoolAt>>
    ELSE /\ Fault(1)
         /\ Acquired(a) \/ LastToStart(a)
         /\ \E ret \in ResolvedReturns(res) : Return(a, ret.err, ret.resp)

\* Service.Append up to its first resolution: stream.Recv() of the first
\* message and its Validate, an error of either is returned at once; then
\* resolve, with no minimum revision.
AppendStart(a) ==
    /\ pc[a] = "start"
    /\ \E first \in FirstResults :
          IF RecvErr(first) # "nil"
          THEN /\ Fault(1)
               /\ LastToStart(a)
               /\ Return(a, RecvErr(first), NoResponse)
          ELSE \E res \in Resolutions : Resolved(a, res)
    /\ UNCHANGED <<ksRevision, pipelineCh, plns, spool, order, messages>>

\* A Service.Append that resolves with no minimum revision whatever
\* acquirePipeline returned.
MinEtcdRevisionNone(r) == 0

\* resolveArgs.minEtcdRevision of the resolve in the loop of Service.Append:
\* its rev, which is what acquirePipeline last returned.
MinEtcdRevision(r) == r

\* Whether a resolution with minEtcdRevision = minRevision may complete: the
\* KeySpace has observed that revision.
Observed(minRevision) == ksRevision >= minRevision

\* resolver.resolve with minEtcdRevision = rev, after acquirePipeline named a
\* revision: it completes once the KeySpace has observed that revision.
Resolve(a) ==
    /\ pc[a] = "resolve"
    /\ Observed(MinEtcdRevision(rev[a]))
    /\ \E res \in Resolutions : Resolved(a, res)
    /\ UNCHANGED <<ksRevision, pipelineCh, plns, spool, order, messages>>

\* What building a pipeline may come to.
AcquireOutcomes == {"OK", "error", "WRONG_ROUTE"}

\* acquirePipeline, and serveAppend's beginning on the pipeline acquired:
\* take what replica.pipelineCh holds.  A pipeline is served on as it is.  In
\* place of nil a new pipeline is built and synchronized: every peer is sent
\* the Spool's Fragment (which rolls back what the local Spool had accepted
\* and not committed); if all answer OK the pipeline is the caller's; if one
\* answers WRONG_ROUTE with a Route of a later revision that revision is
\* returned in place of a pipeline; any other failure is an error.  Without a
\* pipeline to return, nil goes back to the channel.
AcquirePipeline(a) ==
    /\ pc[a] = "acquire"
    /\ pipelineCh # <<>>
    /\ \A b \in Appends : b < a => Acquired(b)
    /\ IF Head(pipelineCh) # 0
       THEN ServeAppendBegin(a, Head(pipelineCh), plns[Head(pipelineCh)], spool)
       ELSE \E out \in AcquireOutcomes :
              CASE out = "OK" ->
                     ServeAppendBegin(a, Len(plns) + 1, NewPipeline(hdr[a]),
                                      SpoolApplyProposal(spool, spool.Fragment).spool)
                [] out = "WRONG_ROUTE" ->
                     /\ Fault(1)
                     /\ rev' = [rev EXCEPT ![a] = hdr[a] + 1]
                     /\ pipelineCh' = <<0>>
                     /\ pc' = [pc EXCEPT ![a] = "resolve"]
                     /\ UNCHANGED <<rpc, plns, spool, hdr, myPln, appender, barrier,
                                    plnSendErr, scattered, gathered, spoolAt>>
                [] out = "error" ->
                     /\ Fault(1)
                     /\ pipelineCh' = <<0>>
                     /\ Return(a, "acquire error", NoResponse)
                     /\ UNCHANGED <<plns, spool>>
    /\ UNCHANGED <<ksRevision, order, messages>>

\* The KeySpace applies a watch response: its Revision advances (up to the
\* latest revision a peer has named).
KeySpaceApply ==
    /\ \E a \in Appends : ksRevision < rev[a]
    /\ ksRevision' = ksRevision + 1
    /\ UNCHANGED <<pc, rev, hdr, myPln, appender, barrier, plnSendErr, rpc,
                   pipelineCh, plns, spool, scattered, order, gathered, spoolAt,
                   messages, faults>>

\* ------------------------------------------------------------ specification

Next ==
    \/ \E a \in Appends : AppendStart(a) /\ UNCHANGED others
    \/ \E a \in Appends : Resolve(a) /\ UNCHANGED others
    \/ \E a \in Appends : AcquirePipeline(a) /\ UNCHANGED others
    \/ KeySpaceApply /\ UNCHANGED others
    \/ \E a \in Appends : OnRecv(a) /\ UNCHANGED others
    \/ \E a \in Appends : Gather(a) /\ UNCHANGED others
    \/ \E a \in Appends : ServeAppendReturn(a) /\ UNCHANGED others

Spec == Init /\ [][Next]_allVars

\* The Append path under fair scheduling: the service does not stop while
\* an RPC can take a step (clients end their streams, peers answer or fail,
\* the KeySpace applies what it is sent).  Every RPC takes finitely many
\* steps, so this is all that the fair scheduling of each RPC gives.
\* Every step of Spec that changes vars is a Next step, so the condition
\* below is WF_vars(Next) written out.
AppendFairSpec ==
    /\ Spec
    /\ ([]<>(~ENABLED <<Next>>_vars) \/ []<><<TRUE>>_vars)

\* --------------------------------------------------------------- keyspace

\* The Etcd store is the sequence of its committed transactions: transaction
\* number r is the store's revision r.  A transaction holds one or two
\* operations, on different keys.
KsKeys == {1, 2}

\* Raw values, as bytes: "1", "10", and "x", which is no number.
RawValues == {<<49>>, <<49, 48>>, <<120>>}

OpPut(key, value) == [Type |-> "PUT", Key |-> key, Value |-> value]
OpDelete(key) == [Type |-> "DELETE", Key |-> key, Value |-> <<>>]

\* The transactions a client may commit: each operation on the first key,
\* and pairs of operations that name the keys in descending order.
EtcdTxns ==
    {<<OpPut(1, v)>> : v \in RawValues}
      \cup {<<OpDelete(1)>>}
      \cup {<<OpPut(2, <<49>>), OpPut(1, <<49, 48>>)>>,
            <<OpPut(2, <<120>>), OpDelete(1)>>}

\* testDecoder: the value as a decimal number, or an error.
IsDigit(c) == c \in 48..57

RECURSIVE Atoi(_, _)
Atoi(n, raw) ==
    IF raw = <<>> THEN n ELSE Atoi(n * 10 + (Head(raw) - 48), Tail(raw))

testDecoder(raw) ==
    IF raw # <<>> /\ \A i \in 1..Len(raw) : IsDigit(raw[i])
    THEN [err |-> "nil", Decoded |-> Atoi(0, raw)]
    ELSE [err |-> "invalid syntax", Decoded |-> 0]

\* The key/value the store holds for a key, or none.
NoKv == [present |-> FALSE, Value |-> <<>>, CreateRevision |-> 0,
         ModRevision |-> 0, Version |-> 0]

\* The store's key/values after its first r transactions.
RECURSIVE EtcdApplyOps(_, _, _)
EtcdApplyOps(kvs, ops, r) ==
    IF ops = <<>> THEN kvs
    ELSE LET op == Head(ops)
             cur == kvs[op.Key]
             next == IF op.Type = "DELETE" THEN NoKv
                     ELSE [present |-> TRUE, Value |-> op.Value,
                           CreateRevision |-> IF cur.present
                                              THEN cur.CreateRevision ELSE r,
                           ModRevision |-> r,
                           Version |-> IF cur.present THEN cur.Version + 1 ELSE 1]
         IN  EtcdApplyOps([kvs EXCEPT ![op.Key] = next], Tail(ops), r)

RECURSIVE EtcdAt(_, _)
EtcdAt(log, r) ==
    IF r = 0 THEN [k \in KsKeys |-> NoKv]
    ELSE EtcdApplyOps(EtcdAt(log, r - 1), log[r], r)

\* The events of the store's transaction r, in the order of its operations:
\* a put carries the key/value it wrote, a delete the key and its revision.
EtcdEvent(log, r, op) ==
    IF op.Type = "DELETE"
    THEN [Type |-> "DELETE", Key |-> op.Key, Value |-> <<>>,
          CreateRevision |-> 0, ModRevision |-> r, Version |-> 0]
    ELSE LET kv == EtcdAt(log, r)[op.Key] IN
         [Type |-> "PUT", Key |-> op.Key, Value |-> kv.Value,
          CreateRevision |-> kv.CreateRevision, ModRevision |-> r,
          Version |-> kv.Version]

RECURSIVE EtcdEvents(_, _, _)
EtcdEvents(log, r, ops) ==
    IF ops = <<>> THEN <<>>
    ELSE <<EtcdEvent(log, r, Head(ops))>> \o EtcdEvents(log, r, Tail(ops))

\* The WatchResponse of transaction r, as a member of cluster answers it.
WatchResponse(log, r, cluster) ==
    [Header |-> ResponseHeader(cluster, r), Events |-> EtcdEvents(log, r, log[r])]

\* The WatchResponses of transactions from..to, in order.
RECURSIVE WatchResponses(_, _, _, _)
WatchResponses(log, from, to, cluster) ==
    IF from > to THEN <<>>
    ELSE <<WatchResponse(log, from, cluster)>>
             \o WatchResponses(log, from + 1, to, cluster)

\* A patchHeader that takes a Header of the same Revision for a later one, and
\* does not compare the ClusterId.
patchHeaderUnchecked(h, update, expectSameRevision) ==
    IF h.Revision > update.Revision
    THEN [err |-> "etcd Revision mismatch", h |-> h]
    ELSE [err |-> "nil", h |-> update]

\* patchHeader(h, update, expectSameRevision): the ClusterId of a Header that
\* has one cannot change; the Revision must be the same (a Header that has
\* one) or greater, as expected; then h becomes update.
patchHeader(h, update, expectSameRevision) ==
    IF h.ClusterId # 0 /\ h.ClusterId # update.ClusterId
    THEN [err |-> "etcd ClusterID mismatch", h |-> h]
    ELSE IF expectSameRevision /\ h.Revision # 0 /\ h.Revision # update.Revision
    THEN [err |-> "etcd Revision mismatch", h |-> h]
    ELSE IF ~expectSameRevision /\ h.Revision >= update.Revision
    THEN [err |-> "etcd Revision mismatch", h |-> h]
    ELSE [err |-> "nil", h |-> update]

\* KeyValues is a sequence of decoded key/values sorted on Key.
KeyValue(ev, decoded) ==
    [Key |-> ev.Key, Decoded |-> decoded, CreateRevision |-> ev.CreateRevision,
     ModRevision |-> ev.ModRevision]

\* KeyValues.Search: the index of key, or the index at which it would be
\* inserted, and whether it was found.
Search(kvs, key) ==
    LET ind == 1 + Cardinality({i \in 1..Len(kvs) : kvs[i].Key < key}) IN
    [ind |-> ind, found |-> ind <= Len(kvs) /\ kvs[ind].Key = key]

Remove(kvs, ind) == SubSeq(kvs, 1, ind - 1) \o SubSeq(kvs, ind + 1, Len(kvs))

\* An event applied so that a put whose value does not decode is skipped, and
\* the key/value held stays.
ApplyEventKeepingPrior(kvs, ev) ==
    LET at == Search(kvs, ev.Key)
        dec == testDecoder(ev.Value)
    IN  IF ev.Type = "DELETE"
        THEN IF at.found THEN Remove(kvs, at.ind) ELSE kvs
        ELSE IF dec.err # "nil" THEN kvs
        ELSE IF at.found THEN [kvs EXCEPT ![at.ind] = KeyValue(ev, dec.Decoded)]
        ELSE SubSeq(kvs, 1, at.ind - 1) \o <<KeyValue(ev, dec.Decoded)>>
                 \o SubSeq(kvs, at.ind, Len(kvs))

\* One event applied to KeyValues.  A delete removes the key, if held.  A put
\* that is not newer than the key/value held changes nothing; a put whose
\* value does not decode evicts the key/value held; any other put inserts the
\* key or updates it, keeping the CreateRevision of the key/value held.
ApplyEvent(kvs, ev) ==
    LET at == Search(kvs, ev.Key)
        dec == testDecoder(ev.Value)
    IN  IF ev.Type = "DELETE"
        THEN IF at.found THEN Remove(kvs, at.ind) ELSE kvs
        ELSE IF at.found /\ ev.ModRevision <= kvs[at.ind].ModRevision
        THEN kvs
        ELSE IF dec.err # "nil"
        THEN IF at.found THEN Remove(kvs, at.ind) ELSE kvs
        ELSE IF at.found
        THEN [kvs EXCEPT ![at.ind] =
                 [KeyValue(ev, dec.Decoded) EXCEPT
                     !.CreateRevision = kvs[at.ind].CreateRevision]]
        ELSE SubSeq(kvs, 1, at.ind - 1) \o <<KeyValue(ev, dec.Decoded)>>
                 \o SubSeq(kvs, at.ind, Len(kvs))

RECURSIVE ApplyEvents(_, _)
ApplyEvents(kvs, events) ==
    IF events = <<>> THEN kvs
    ELSE ApplyEvents(ApplyEvent(kvs, Head(events)), Tail(events))

\* The events of a batch of WatchResponses, in order.
RECURSIVE BatchEvents(_)
BatchEvents(responses) ==
    IF responses = <<>> THEN <<>>
    ELSE Head(responses).Events \o BatchEvents(Tail(responses))

\* The events ordered on key, but those of one key latest first.
RECURSIVE Reversed(_)
Reversed(seq) ==
    IF seq = <<>> THEN <<>> ELSE Append(Reversed(Tail(seq)), Head(seq))

RECURSIVE OrderOnKeyLatestFirst(_, _)
OrderOnKeyLatestFirst(events, keys) ==
    IF keys = {} THEN <<>>
    ELSE LET k == CHOOSE x \in keys : \A y \in keys : x <= y IN
         Reversed(SelectSeq(events, LAMBDA ev : ev.Key = k))
             \o OrderOnKeyLatestFirst(events, keys \ {k})

\* The events ordered on key, those of one key in their order of revision.
RECURSIVE OrderOnKey(_, _)
OrderOnKey(events, keys) ==
    IF keys = {} THEN <<>>
    ELSE LET k == CHOOSE x \in keys : \A y \in keys : x <= y IN
         SelectSeq(events, LAMBDA ev : ev.Key = k)
             \o OrderOnKey(events, keys \ {k})

\* The Header after the Headers of a batch, each patched in as a later
\* Revision; the first error ends it.
RECURSIVE PatchHeaders(_, _)
PatchHeaders(h, responses) ==
    IF responses = <<>> THEN [err |-> "nil", h |-> h]
    ELSE LET patched == patchHeader(h, Head(responses).Header, FALSE) IN
         IF patched.err # "nil" THEN [err |-> patched.err, h |-> h]
         ELSE PatchHeaders(patched.h, Tail(responses))

\* A batch applied without a check, and merged by appending what decodes.
RECURSIVE AppendEvents(_, _)
AppendEvents(kvs, events) ==
    IF events = <<>> THEN kvs
    ELSE AppendEvents(
             IF Head(events).Type = "PUT"
                   /\ testDecoder(Head(events).Value).err = "nil"
             THEN Append(kvs, KeyValue(Head(events),
                                       testDecoder(Head(events).Value).Decoded))
             ELSE kvs,
             Tail(events))

applyAppending(k, responses) ==
    [err |-> "nil",
     ks |-> [Header |-> IF responses = <<>> THEN k.Header
                        ELSE responses[Len(responses)].Header,
             KeyValues |-> AppendEvents(k.KeyValues, BatchEvents(responses))]]

\* An apply that takes the Revision of the batch before it validates its
\* Headers.
applyMergingFirst(k, responses) ==
    LET patched == PatchHeaders(k.Header, responses) IN
    IF patched.err # "nil"
    THEN [err |-> patched.err,
          ks |-> [k EXCEPT !.Header.Revision =
                               responses[Len(responses)].Header.Revision]]
    ELSE [err |-> "nil",
          ks |-> [Header |-> patched.h,
                  KeyValues |-> ApplyEvents(k.KeyValues,
                                   OrderOnKey(BatchEvents(responses), KsKeys))]]

\* KeySpace.apply: the Headers of the batch are validated and merged; a
\* batch that fails this is not applied at all.  Then the events are applied
\* in key order.  Inconsistencies of single events are logged, not returned.
apply(k, responses) ==
    LET patched == PatchHeaders(k.Header, responses) IN
    IF patched.err # "nil" THEN [err |-> patched.err, ks |-> k]
    ELSE [err |-> "nil",
          ks |-> [Header |-> patched.h,
                  KeyValues |-> ApplyEvents(k.KeyValues,
                                   OrderOnKey(BatchEvents(responses), KsKeys))]]

\* KeySpace.Load at a revision: the store's key/values at that revision are
\* read in key order and decoded; a value that does not decode is logged and
\* skipped.
RECURSIVE LoadKeyValues(_, _)
LoadKeyValues(kvs, keys) ==
    IF keys = {} THEN <<>>
    ELSE LET k == CHOOSE x \in keys : \A y \in keys : x <= y
             dec == testDecoder(kvs[k].Value)
         IN  (IF kvs[k].present /\ dec.err = "nil"
              THEN <<[Key |-> k, Decoded |-> dec.Decoded,
                      CreateRevision |-> kvs[k].CreateRevision,
                      ModRevision |-> kvs[k].ModRevision]>>
              ELSE <<>>) \o LoadKeyValues(kvs, keys \ {k})

Load(k, log, revision, cluster) ==
    LET patched == patchHeader(k.Header, ResponseHeader(cluster, revision), TRUE) IN
    IF patched.err # "nil" THEN [err |-> patched.err, ks |-> k]
    ELSE [err |-> "nil",
          ks |-> [Header |-> patched.h,
                  KeyValues |-> LoadKeyValues(EtcdAt(log, revision), KsKeys)]]

\* The clusters a response may come from: the store's, and another.
EtcdCluster == 9999
OtherCluster == 10000

\* A client commits a transaction to the store.
EtcdTxn ==
    /\ Len(etcd) < MaxRevision
    /\ \E txn \in EtcdTxns : etcd' = Append(etcd, txn)
    /\ UNCHANGED exceptEtcd

\* A new KeySpace loads the store at its current revision.
KsLoad ==
    /\ ksApplied.op = "none"
    /\ \E cluster \in {EtcdCluster} :
          LET loaded == Load(ks, etcd, Len(etcd), cluster) IN
          /\ ks' = loaded.ks
          /\ ksApplied' = [op |-> "Load", from |-> 0, err |-> loaded.err,
                           again |-> FALSE, changed |-> loaded.ks # ks]
    /\ UNCHANGED exceptKeySpace

\* The KeySpace is handed the WatchResponses of the transactions from..to:
\* those that follow its Header, those of the batch it accepted last, or
\* those from the store's first on; from the store's cluster or, the store's
\* latest, from another.
KsApply ==
    /\ \E from \in {1, ks.Header.Revision + 1, ksApplied.from} \cap 1..Len(etcd) :
       \E to \in from..Len(etcd) :
       \E cluster \in {EtcdCluster}
                         \cup (IF to = Len(etcd) THEN {OtherCluster} ELSE {}) :
          LET got == apply(ks, WatchResponses(etcd, from, to, cluster)) IN
          /\ ks' = got.ks
          /\ ksApplied' = [op |-> "apply",
                           from |-> IF got.err = "nil" THEN from ELSE 0,
                           err |-> got.err,
                           again |-> /\ ksApplied.op = "apply"
                                     /\ ksApplied.err = "nil"
                                     /\ ksApplied.from = from
                                     /\ ks.Header = ResponseHeader(cluster, to),
                           changed |-> got.ks # ks]
    /\ UNCHANGED exceptKeySpace

KsNext ==
    \/ EtcdTxn
    \/ KsLoad
    \/ KsApply

KsSpec == Init /\ [][KsNext]_allVars

\* ------------------------------------------------------------------ watch

\* KeySpace.Watch(ctx, client, signalCh) on a loaded KeySpace, with a
\* receiver on signalCh.  Watch applies the responses that follow its Header
\* and signals after each apply; it returns only when its context is
\* cancelled, with context.Canceled, and closes signalCh as it returns.

\* The tick after an apply is sent without blocking: it is delivered if a
\* receiver waits on the channel.
SignalsNone(waiting) == FALSE

Signals(waiting) == waiting

\* Watch is called.
WatchBegin ==
    /\ watch.pc = "idle"
    /\ ksApplied.op = "Load"
    /\ watch' = [watch EXCEPT !.pc = "watching"]
    /\ UNCHANGED <<vars, replica, etcd, ks, ksApplied, allocator, leader, stream, clients>>

\* Watch receives from the store the responses of the transactions that
\* follow its Header, up to some revision, and applies them as one batch.
WatchApply ==
    /\ watch.pc = "watching"
    /\ \E to \in (ks.Header.Revision + 1)..Len(etcd) :
          /\ ks' = apply(ks, WatchResponses(etcd, ks.Header.Revision + 1,
                                            to, EtcdCluster)).ks
          /\ watch' = [watch EXCEPT !.pc = "signal"]
    /\ UNCHANGED <<vars, replica, etcd, ksApplied, allocator, leader, stream, clients>>

\* Watch signals the apply.
WatchSignal ==
    /\ watch.pc = "signal"
    /\ watch' = [watch EXCEPT
           !.pc = "watching",
           !.waiting = IF Signals(watch.waiting) THEN FALSE ELSE @,
           !.delivered = IF Signals(watch.waiting) THEN @ + 1 ELSE @]
    /\ UNCHANGED <<vars, replica, etcd, ks, ksApplied, allocator, leader, stream, clients>>

\* A receiver begins to wait on signalCh (on a closed channel it would not
\* wait).
ReceiverWaits ==
    /\ watch.pc # "idle"
    /\ ~watch.closed
    /\ ~watch.waiting
    /\ watch' = [watch EXCEPT !.waiting = TRUE]
    /\ UNCHANGED <<vars, replica, etcd, ks, ksApplied, allocator, leader, stream, clients>>

\* The context of Watch is cancelled.
WatchCancel ==
    /\ watch.pc # "idle"
    /\ ~watch.ctxDone
    /\ watch' = [watch EXCEPT !.ctxDone = TRUE]
    /\ UNCHANGED <<vars, replica, etcd, ks, ksApplied, allocator, leader, stream, clients>>

\* Watch finds its context cancelled: it closes signalCh and returns
\* context.Canceled.
WatchReturn ==
    /\ watch.pc = "watching"
    /\ watch.ctxDone
    /\ watch' = [watch EXCEPT !.pc = "returned", !.err = "context canceled",
                              !.closed = TRUE, !.waiting = FALSE]
    /\ UNCHANGED <<vars, replica, etcd, ks, ksApplied, allocator, leader, stream, clients>>

WatchNext ==
    \/ EtcdTxn
    \/ KsLoad
    \/ WatchBegin
    \/ WatchApply
    \/ WatchSignal
    \/ ReceiverWaits
    \/ WatchCancel
    \/ WatchReturn

WatchSpec == Init /\ [][WatchNext]_allVars

\* ---------------------------------------------------------------- replica

\* The replica's side of one Replicate stream, after the stream's first
\* request has been accepted: each ReplicateRequest is applied to the Spool;
\* a commit of content adds the Fragment to the replica's index, whose
\* EndOffset is the greatest End it holds.

\* The response to a request the Spool answered with status: a status that is
\* not OK is always sent, OK only when the request asks to be acknowledged.
ReplicateResponse(status, ack) ==
    IF status # "OK" \/ ack THEN status ELSE "none"

\* A Content request: the Spool accepts it at its ContentDelta or refuses
\* it; the index is not touched.
ReplicateContent ==
    \E content \in ContentChunks : \E delta \in {0, Len(replica.spool.delta)} :
        LET applied == SpoolApplyContent(replica.spool, content, delta) IN
        /\ replica.spool.Fragment.End + Len(replica.spool.delta) + Len(content)
               <= MaxOffset
        /\ replica' = [replica EXCEPT
               !.spool = applied.spool,
               !.req = ContentRequest(content, delta),
               !.resp = ReplicateResponse(applied.status, FALSE)]
        /\ UNCHANGED exceptReplica

\* The proposal of a primary that has streamed to the replica what the
\* replica has received: from the committed End, over the content streamed
\* since, with the digest of the Fragment's whole content (as the proposal
\* {Begin: 0, End: 13, Sum: sumOf("foobarbazbing")} of TestStreamAndCommit).
\* The proposals a primary may send to a replica in this state: that one, the
\* replica's committed Fragment (a rollback), a roll to an empty Fragment at
\* its End, and Fragments that differ from the first in Begin, in End or in
\* Sum.
StreamedProposal(r) ==
    [r.spool.Fragment EXCEPT
        !.Begin = r.spool.Fragment.End,
        !.End = r.spool.Fragment.End + Len(r.spool.delta),
        !.Sum = sumOf(r.bytes \o r.spool.delta)]

Proposals(r) ==
    {StreamedProposal(r), r.spool.Fragment, updateProposalNext(r.spool.Fragment),
     [StreamedProposal(r) EXCEPT !.End = @ + 1],
     [StreamedProposal(r) EXCEPT !.Begin = @ + 1, !.End = @ + 1],
     [StreamedProposal(r) EXCEPT !.Sum = (@ + 1) % 1009]}

\* A Proposal request: the Spool commits, rolls back, rolls or refuses; a
\* commit of content advances the index to the Fragment's new End.
ReplicateProposal ==
    \E proposal \in Proposals(replica) : \E ack \in BOOLEAN :
        LET applied == SpoolApplyProposal(replica.spool, proposal)
            rolled == applied.spool.Fragment.Begin # replica.spool.Fragment.Begin
            committed == /\ ~rolled
                         /\ applied.spool.Fragment.End > replica.spool.Fragment.End
        IN
        /\ proposal.End <= MaxOffset
        /\ replica' = [replica EXCEPT
               !.spool = applied.spool,
               !.EndOffset = IF committed /\ applied.spool.Fragment.End > @
                             THEN applied.spool.Fragment.End ELSE @,
               !.bytes = IF rolled THEN <<>>
                         ELSE IF committed THEN @ \o replica.spool.delta
                         ELSE @,
               !.req = ProposalRequest(proposal, ack),
               !.resp = ReplicateResponse(applied.status, ack)]
        /\ UNCHANGED exceptReplica

ReplicaNext ==
    \/ ReplicateContent
    \/ ReplicateProposal

ReplicaSpec == Init /\ [][ReplicaNext]_allVars

\* ------------------------------------------------- batchedTxn, its calls

\* The number of compares, or ops, in a sequence of runs.
RECURSIVE Count(_)
Count(runs) ==
    IF runs = <<>> THEN 0 ELSE Head(runs).n + Count(Tail(runs))

\* batchedTxn.If and batchedTxn.Then: the compares, or ops, join the
\* checkpoint being built.
TxnIf(b, c) == [b EXCEPT !.nextCmps = @ \o c]
TxnThen(b, o) == [b EXCEPT !.nextOps = @ \o o]

\* batchedTxn.Commit, where outcome is what becomes of the transaction it
\* issues: "error" (the store call fails), "checks" (the compares do not
\* succeed) or "ok".  It panics if a checkpoint is being built.  issued is
\* the transaction given to txnDo, if any; only a transaction that succeeded
\* is dropped from the queue.
TxnCommit(b, outcome) ==
    IF b.nextCmps # <<>> \/ b.nextOps # <<>>
    THEN [b |-> b, err |-> "panic", issued |-> <<>>]
    ELSE [b |-> IF outcome = "ok"
                THEN [b EXCEPT !.cmps = <<>>, !.ops = <<>>]
                ELSE b,
          err |-> CASE outcome = "error" -> "store error"
                    [] outcome = "checks" -> "transaction checks did not succeed"
                    [] OTHER -> "nil",
          issued |-> <<[cmps |-> b.cmps, ops |-> b.ops, outcome |-> outcome]>>]

\* A Checkpoint that flushes after it has queued the compares of the
\* checkpoint, and queues the ops behind the flush.
TxnCheckpointSplitting(b, outcome) ==
    LET began == IF b.cmps = <<>> THEN [b EXCEPT !.cmps = b.fixedCmps] ELSE b
        nc == b.nextCmps
        no == b.nextOps
        queued == [began EXCEPT !.nextCmps = <<>>, !.nextOps = <<>>,
                                !.cmps = @ \o nc]
        over == \/ Count(began.cmps) + Count(nc) > maxTxnOps
                \/ Count(began.ops) + Count(no) > maxTxnOps
        flush == TxnCommit(queued, outcome)
    IN  IF over /\ flush.err # "nil" THEN flush
        ELSE IF over
        THEN [b |-> [flush.b EXCEPT !.cmps = b.fixedCmps, !.ops = no],
              err |-> "nil", issued |-> flush.issued]
        ELSE [b |-> [queued EXCEPT !.ops = @ \o no],
              err |-> "nil", issued |-> <<>>]

\* A Checkpoint that never flushes.
TxnCheckpointUncapped(b, outcome) ==
    LET began == IF b.cmps = <<>> THEN [b EXCEPT !.cmps = b.fixedCmps] ELSE b
    IN  [b |-> [began EXCEPT !.nextCmps = <<>>, !.nextOps = <<>>,
                             !.cmps = @ \o b.nextCmps, !.ops = @ \o b.nextOps],
         err |-> "nil", issued |-> <<>>]

\* batchedTxn.Checkpoint while maxTxnOps is cap: the fixed compares open an
\* empty queue; the checkpoint being built is taken; if the queue with it
\* would hold more than cap compares or ops, the queue is committed first
\* (an error of that Commit is returned, and the checkpoint taken is lost)
\* and the fixed compares open the queue again; then the checkpoint is
\* queued.
Checkpoint(b, cap, outcome) ==
    LET began == IF b.cmps = <<>> THEN [b EXCEPT !.cmps = b.fixedCmps] ELSE b
        nc == b.nextCmps
        no == b.nextOps
        taken == [began EXCEPT !.nextCmps = <<>>, !.nextOps = <<>>]
        over == \/ Count(taken.cmps) + Count(nc) > cap
                \/ Count(taken.ops) + Count(no) > cap
        flush == TxnCommit(taken, outcome)
    IN  IF over /\ flush.err # "nil" THEN flush
        ELSE IF over
        THEN [b |-> [flush.b EXCEPT !.cmps = (@ \o b.fixedCmps) \o nc,
                                    !.ops = @ \o no],
              err |-> "nil", issued |-> flush.issued]
        ELSE [b |-> [taken EXCEPT !.cmps = @ \o nc, !.ops = @ \o no],
              err |-> "nil", issued |-> <<>>]

\* batchedTxn.Checkpoint under the maxTxnOps the package declares.
TxnCheckpoint(b, outcome) == Checkpoint(b, maxTxnOps, outcome)

\* modRevisionUnchanged(kv), as a compare of checkpoint cp.
modRevisionUnchanged(kv, cp) ==
    [cp |-> cp, n |-> 1, target |-> "ModRevision", key |-> kv.Key,
     value |-> kv.ModRevision]

\* clientv3.Compare(clientv3.CreateRevision(ItemKey(ks, itemID)), "=", 0).
ItemIsAbsent(itemID, cp) ==
    [cp |-> cp, n |-> 1, target |-> "CreateRevision", key |-> <<itemID>>,
     value |-> 0]

\* clientv3.OpDelete of the key of an Assignment.
DeleteAssignment(kv, cp) == [cp |-> cp, n |-> 1, op |-> "delete", key |-> kv.Key]

\* -------------------------------------------------------------- allocator

\* The keys of S in ascending order: the i-th has i - 1 keys of S below it.
SortedKeys(S) ==
    [i \in 1..Cardinality(S) |->
        CHOOSE k \in S : Cardinality({j \in S : j < k}) = i - 1]

\* The k least keys of S (all of S, if it has no more).
RECURSIVE Lowest(_, _)
Lowest(S, k) ==
    IF S = {} \/ k <= 0 THEN {}
    ELSE LET least == CHOOSE e \in S : \A j \in S : e <= j
         IN  {least} \cup Lowest(S \ {least}, k - 1)

\* The Allocator KeySpace that has watched the store through Revision r: the
\* Member KeyValues and the Item KeyValues in key order, and the Assignments.
AllocKeySpace(r) ==
    LET at == allocEtcd[r]
        present == {m \in AllocMembers : at.members[m].CreateRevision # 0}
        keys == SortedKeys(present)
        ids == SortedKeys(at.items)
    IN  [Revision |-> r,
         Members |-> [i \in 1..Len(keys) |->
                         [Key |-> keys[i],
                          R |-> at.members[keys[i]].R,
                          CreateRevision |-> at.members[keys[i]].CreateRevision,
                          ModRevision |-> at.members[keys[i]].ModRevision]],
         Items |-> [i \in 1..Len(ids) |-> [ID |-> ids[i], R |-> ItemR]],
         Assignments |-> at.asn]

\* newAllocState(ks, localKey): the Members, the Items, the Assignments, the
\* index of the local Member (an error if its key is absent) and the network
\* hash, which stands for (ID, R) of every Item and of every Member in order.
NewState(keySpace, localKey) ==
    LET inds == {i \in 1..Len(keySpace.Members) :
                    keySpace.Members[i].Key = localKey}
    IN  [err |-> IF inds = {} THEN "member key not found" ELSE "nil",
         ks |-> keySpace,
         members |-> keySpace.Members,
         items |-> keySpace.Items,
         assignments |-> keySpace.Assignments,
         localMemberInd |-> IF inds = {} THEN 0 ELSE CHOOSE i \in inds : TRUE,
         networkHash |->
             <<keySpace.Items,
               [i \in 1..Len(keySpace.Members) |->
                   [ID |-> keySpace.Members[i].Key,
                    R |-> keySpace.Members[i].R]]>>]

\* The local Member of an allocState.
LocalMember(as) == as.members[as.localMemberInd]

\* Of the Assignments S, those of Item id and those to the Member of a key,
\* and the Members that hold one.
AssignmentsOf(S, id) == {p \in S : p[1] = id}
AssignedTo(S, key) == {p \in S : p[2] = key}
MembersOf(S) == {p[2] : p \in S}

\* A leader test that compares CreateRevisions only.
isLeaderByRevisionOnly(as) ==
    \A i \in 1..Len(as.members) :
        as.members[i].CreateRevision >= LocalMember(as).CreateRevision

\* isLeader: the local Member has the smallest CreateRevision, and of the
\* Members with that CreateRevision the smallest key.
isLeader(as) ==
    \A i \in 1..Len(as.members) :
        i # as.localMemberInd =>
            \/ as.members[i].CreateRevision > LocalMember(as).CreateRevision
            \/ /\ as.members[i].CreateRevision = LocalMember(as).CreateRevision
               /\ as.members[i].Key > LocalMember(as).Key

\* shouldExit: the local Member has R = 0 and no Assignment references it.
shouldExit(as) ==
    /\ LocalMember(as).R = 0
    /\ AssignedTo(as.assignments, LocalMember(as).Key) = {}

\* The greatest of a set of numbers.
Most(sizes) == CHOOSE n \in sizes : \A k \in sizes : k <= n

\* The flows of the network of an allocState: each Item takes up to its R
\* Members, and each Member with R > 0 takes up to its R Items.
Flows(as) ==
    LET up == {j \in 1..Len(as.members) : as.members[j].R > 0}
        edges == {<<as.items[i].ID, as.members[j].Key>> :
                     i \in 1..Len(as.items), j \in up}
    IN  {D \in SUBSET edges :
            /\ \A i \in 1..Len(as.items) :
                   Cardinality(AssignmentsOf(D, as.items[i].ID))
                       <= as.items[i].R
            /\ \A j \in up :
                   Cardinality(AssignedTo(D, as.members[j].Key))
                       <= as.members[j].R}

\* The desired Assignments the solver may extract: a maximum flow, and of
\* the maximum flows one that keeps the most of the current Assignments.
\* (The flows, the size of the greatest and the maximum flows are bound one
\* after the other, each as the member of a singleton.)
extractDesired(as) ==
    UNION {UNION {UNION {
        {D \in maximum :
            Cardinality(D \cap as.assignments)
                = Most({Cardinality(E \cap as.assignments) : E \in maximum})}
        : maximum \in {{D \in flows : Cardinality(D) = most}}}
        : most \in {Most({Cardinality(D) : D \in flows})}}
        : flows \in {Flows(as)}}

\* The Assignments of an allocState that the left join of converge skips
\* between and after its cursors: those whose ItemID is the ID of no Item.
DeadAssignments(as) ==
    {p \in as.assignments :
        \A i \in 1..Len(as.items) : as.items[i].ID # p[1]}

\* converge(txn, as, desired): of each Item, the Assignments to create are
\* the desired ones that are missing, and the Assignments to remove are the
\* others, as many as leave the Item with its R Assignments.  The
\* Assignments without an Item are handed to removeDeadAssignments, which
\* queues the delete of each, under the compare that its Item is absent.
\* checkpoints tells whether a Checkpoint was made: one is made for every
\* Item and for every absent Item with Assignments.
converge(as, desired) ==
    LET current(id) == MembersOf(AssignmentsOf(as.assignments, id))
        wanted(id) == MembersOf(AssignmentsOf(desired, id))
        removesOf(item) ==
            Lowest(current(item.ID) \ wanted(item.ID),
                   Cardinality(current(item.ID) \cup wanted(item.ID)) - item.R)
    IN  [creates |-> desired \ as.assignments,
         removes |-> UNION {{<<as.items[i].ID, key>> :
                                key \in removesOf(as.items[i])} :
                            i \in 1..Len(as.items)},
         dead |-> DeadAssignments(as),
         checkpoints |-> Len(as.items) # 0 \/ DeadAssignments(as) # {}]

\* The Revision at which the store last put the Assignment p it holds (the
\* Allocator puts an Assignment once and never updates it): its ModRevision.
AssignmentModRevision(store, p) ==
    CHOOSE r \in 1..Len(store) :
        /\ \A k \in r..Len(store) : p \in store[k].asn
        /\ r = 1 \/ p \notin store[r - 1].asn

\* The KeyValue of Assignment p in the KeySpace of the allocState as.
AssignmentKV(as, p) ==
    [Key |-> p,
     ModRevision |->
         AssignmentModRevision(SubSeq(allocEtcd, 1, as.ks.Revision), p)]

\* The compare and the op that create Assignment p in checkpoint cp: its key
\* is not in the store, and is put.
AssignmentIsAbsent(p, cp) ==
    [cp |-> cp, n |-> 1, target |-> "CreateRevision", key |-> p, value |-> 0]
PutAssignment(p, cp) == [cp |-> cp, n |-> 1, op |-> "put", key |-> p]

\* Whether compare c holds in the store: a fixed compare is of the ModRevision
\* of the local Member key, a compare of a CreateRevision with 0 is of the
\* key of an Item or of an Assignment, and any other is of the ModRevision
\* of an Assignment.
CompareHolds(store, c) ==
    LET now == store[Len(store)]
    IN  IF c.cp = 0 THEN now.members[c.key].ModRevision = c.value
        ELSE IF c.target = "CreateRevision"
        THEN IF Len(c.key) = 1 THEN c.key[1] \notin now.items
             ELSE c.key \notin now.asn
        ELSE /\ c.key \in now.asn
             /\ AssignmentModRevision(store, c.key) = c.value

\* What becomes of a transaction of compares cmps when txnDo returns do: the
\* call fails, or the store answers and the transaction succeeds if and only
\* if all its compares hold.
StoreOutcome(store, cmps, do) ==
    IF do # "nil" THEN "error"
    ELSE IF \A i \in 1..Len(cmps) : CompareHolds(store, cmps[i]) THEN "ok"
    ELSE "checks"

\* The store after the transactions issued (none, or one): the ops of one
\* that succeeded make a revision; a transaction without ops makes none.
StoreApply(store, issued) ==
    IF issued = <<>> \/ issued[1].outcome # "ok" \/ issued[1].ops = <<>>
    THEN store
    ELSE LET ops == issued[1].ops
             keys(op) == {ops[i].key : i \in {j \in 1..Len(ops) : ops[j].op = op}}
         IN  Append(store,
                    [store[Len(store)] EXCEPT
                        !.asn = (@ \cup keys("put")) \ keys("delete")])

\* The IDs converge meets as it walks the Items joined with the Assignments,
\* in order: those of the Items, and those of the Assignments without Item.
JoinedIDs(as) ==
    SortedKeys({as.items[i].ID : i \in 1..Len(as.items)}
                   \cup {p[1] : p \in as.assignments})

\* The batchedTxn with the checkpoint of cursor cp built, for the ID id: for
\* an Item, the creates and removes of converge, each under the compare of
\* its Assignment's key; for the dead Assignments of an absent Item, the
\* compare that the Item is absent and the removes.
BuildCheckpoint(b, as, ops, id, cp) ==
    LET members(S) == SortedKeys(MembersOf(AssignmentsOf(S, id)))
        creates == members(ops.creates)
        removes == members(ops.removes \cup ops.dead)
        kv(i) == AssignmentKV(as, <<id, removes[i]>>)
    IN  [b EXCEPT
            !.nextCmps =
                ((@ \o (IF AssignmentsOf(ops.dead, id) # {}
                        THEN <<ItemIsAbsent(id, cp)>> ELSE <<>>))
                    \o [i \in 1..Len(creates) |->
                           AssignmentIsAbsent(<<id, creates[i]>>, cp)])
                    \o [i \in 1..Len(removes) |-> modRevisionUnchanged(kv(i), cp)],
            !.nextOps =
                (@ \o [i \in 1..Len(creates) |->
                          PutAssignment(<<id, creates[i]>>, cp)])
                    \o [i \in 1..Len(removes) |-> DeleteAssignment(kv(i), cp)]]

\* The call by ("Checkpoint" or "Commit") of the batchedTxn b, where outcome
\* is what becomes of the transaction it issues, if it issues one.
Made(b, by, outcome) ==
    IF by = "Checkpoint" THEN Checkpoint(b, AllocTxnOps, outcome)
    ELSE TxnCommit(b, outcome)

\* What a round goes on with after the call by of its batchedTxn b, where
\* t.outs are the outcomes of the transactions the round has been answered,
\* in turn, and t.issued those transactions: a call that issues no
\* transaction returns at once; one that issues a transaction returns with
\* the answer of the store, and while the answer is awaited the transaction
\* is t.pending.
AfterCall(t, b, by) ==
    LET asked == Made(b, by, "ok").issued
        got == Made(b, by, t.outs[1])
    IN  IF asked = <<>>
        THEN [t EXCEPT !.b = Made(b, by, "ok").b, !.err = Made(b, by, "ok").err]
        ELSE IF t.outs = <<>>
        THEN [t EXCEPT !.b = b,
                       !.pending = <<[by |-> by, cmps |-> asked[1].cmps,
                                      ops |-> asked[1].ops]>>]
        ELSE [b |-> got.b, err |-> got.err,
              issued |-> Append(t.issued,
                                [by |-> by, cmps |-> got.issued[1].cmps,
                                 ops |-> got.issued[1].ops,
                                 outcome |-> got.issued[1].outcome]),
              outs |-> Tail(t.outs), pending |-> <<>>]

\* converge(txn, as, desired) from the cp-th of the IDs joined on: each
\* checkpoint is built and Checkpoint called; the error of a Checkpoint ends
\* the pass.
RECURSIVE ConvergeFrom(_, _, _, _, _)
ConvergeFrom(t, as, ops, ids, cp) ==
    IF cp > Len(ids) \/ t.err # "nil" \/ t.pending # <<>> THEN t
    ELSE ConvergeFrom(AfterCall(t, BuildCheckpoint(t.b, as, ops, ids[cp], cp),
                                "Checkpoint"),
                      as, ops, ids, cp + 1)

\* What txnDo may return to a transaction: the error of kv.Do under a
\* cancelled context; under a live one nil, or the error of a store call
\* that fails.
TxnDoOutcomes(ctx) ==
    IF ctx = "live" THEN {"nil", "store error"} ELSE {"context canceled"}

\* if err = converge(txn, as, desired); err == nil { txnResponse, err =
\* txn.Commit() }, with txn the newBatchedTxn whose fixed compare is
\* modRevisionUnchanged of the local Member, as far as the outcomes outs of
\* its transactions take it: to its end (err is the error, as batchedTxn
\* names it), or to the transaction that awaits the store (pending).
ConvergeAndCommit(as, desired, outs) ==
    LET txn == [cmps |-> <<>>, ops |-> <<>>, nextCmps |-> <<>>, nextOps |-> <<>>,
                fixedCmps |-> <<modRevisionUnchanged(LocalMember(as), 0)>>]
        converged ==
            ConvergeFrom([b |-> txn, err |-> "nil", issued |-> <<>>,
                          outs |-> outs, pending |-> <<>>],
                         as, converge(as, desired), JoinedIDs(as), 1)
    IN  IF converged.err # "nil" \/ converged.pending # <<>> THEN converged
        ELSE AfterCall(converged, converged.b, "Commit")

\* A loop that leaves whenever newAllocState succeeds.
RoundOutcomeLeaving(err, exit) ==
    IF err # "nil" THEN "fail" ELSE "exit"

\* How a round of Serve's goroutine begins: it fails with the error of
\* newAllocState, or leaves because of shouldExit, or goes on.
RoundOutcome(err, exit) ==
    IF err # "nil" THEN "fail"
    ELSE IF exit THEN "exit"
    ELSE "continue"

\* The operations on the store made from outside the Allocator since the
\* fixture: they are the revisions that changed a Member key or an Item key.
AllocOps ==
    Cardinality({r \in (Len(AllocFixture) + 1)..Len(allocEtcd) :
                    \/ allocEtcd[r].members # allocEtcd[r - 1].members
                    \/ allocEtcd[r].items # allocEtcd[r - 1].items})

\* The store after a transaction that sets Member key m to value.
PutMember(m, value) ==
    Append(allocEtcd,
           [allocEtcd[Len(allocEtcd)] EXCEPT !.members[m] = value])

\* update(ctx, client, key, {"R": 0}): an existing Member is set to drain.
AllocUpdate ==
    /\ AllocOps < MaxAllocOps
    /\ \E m \in AllocMembers, R \in {0} :
          LET was == allocEtcd[Len(allocEtcd)].members[m]
          IN  /\ was.CreateRevision # 0
              /\ was.R # R
              /\ allocEtcd' = PutMember(m,
                     [was EXCEPT !.R = R, !.ModRevision = Len(allocEtcd) + 1])
    /\ UNCHANGED <<serve, exceptAllocator>>

\* A Member key is inserted, with R = 0 or with the R of a starting Member.
AllocInsert ==
    /\ AllocOps < MaxAllocOps
    /\ \E m \in AllocMembers, R \in {0, MemberR} :
          /\ allocEtcd[Len(allocEtcd)].members[m].CreateRevision = 0
          /\ allocEtcd' = PutMember(m,
                 [R |-> R, CreateRevision |-> Len(allocEtcd) + 1,
                  ModRevision |-> Len(allocEtcd) + 1])
    /\ UNCHANGED <<serve, exceptAllocator>>

\* A Member key is deleted.
AllocDelete ==
    /\ AllocOps < MaxAllocOps
    /\ \E m \in AllocMembers :
          /\ allocEtcd[Len(allocEtcd)].members[m].CreateRevision # 0
          /\ allocEtcd' = PutMember(m, NoMember)
    /\ UNCHANGED <<serve, exceptAllocator>>

\* An Item key is deleted: its Assignments stay in the store, dead.
AllocDeleteItem ==
    /\ AllocOps < MaxAllocOps
    /\ \E item \in allocEtcd[Len(allocEtcd)].items :
          allocEtcd' = Append(allocEtcd,
              [allocEtcd[Len(allocEtcd)] EXCEPT !.items = @ \ {item}])
    /\ UNCHANGED <<serve, exceptAllocator>>

\* An Item key is inserted.
AllocInsertItem ==
    /\ AllocOps < MaxAllocOps
    /\ \E item \in AllocItemIDs \ allocEtcd[Len(allocEtcd)].items :
          allocEtcd' = Append(allocEtcd,
              [allocEtcd[Len(allocEtcd)] EXCEPT !.items = @ \cup {item}])
    /\ UNCHANGED <<serve, exceptAllocator>>

\* Serve is called, with m as the LocalKey of the Allocator: it loads the
\* KeySpace, and on success starts its goroutine and calls Watch; an error
\* of Load is returned.  One Allocator serves, as in benchmarkSimulatedDeploy,
\* where the other Members are keys of the store only.
ServeBegin(m) ==
    /\ \A other \in AllocMembers : serve[other] = NotServing
    /\ \E loadErr \in {"nil", "load error"} :
          serve' = [serve EXCEPT ![m] =
              IF loadErr # "nil"
              THEN [@ EXCEPT !.w = "returned", !.err = loadErr]
              ELSE [@ EXCEPT !.g = "loop", !.w = "watching",
                             !.ksRev = Len(allocEtcd)]]
    /\ UNCHANGED <<allocEtcd, exceptAllocator>>

\* The goroutine leaves its loop: cancel is called.
Break(sv, why) ==
    [sv EXCEPT !.g = "exited", !.broke = why, !.brokeAt = sv.ksRev,
               !.ctx = IF @ = "live" THEN "done" ELSE @]

\* The scheduling iteration of a round of the goroutine with locals sv, from
\* allocState as on, up to the answer of the store to the next transaction:
\* a round that begins runs the solver if solve says so; the transaction the
\* round has come to is given to txnDo, which meets the store as it is now
\* and the context as it is now; then the round goes on to its next
\* transaction, whose answer it awaits (g is "txn"), or to its end, where it
\* counts itself completed if converge and Commit returned no error (or, if
\* always says so, whatever they returned).
SchedulingIteration(sv, as, solve, always) ==
    \E began \in
        (IF sv.g = "txn" THEN {sv}
         ELSE {[sv EXCEPT !.lastNetworkHash = as.networkHash,
                          !.desired = desired,
                          !.solved = solve,
                          !.solvedFor = IF solve THEN as.networkHash ELSE @,
                          !.issued = <<>>] :
                  desired \in (IF solve THEN extractDesired(as)
                               ELSE {sv.desired})}) :
    \E do \in TxnDoOutcomes(sv.ctx) :
    \E oks \in {[i \in 1..Len(began.issued) |-> "ok"]} :
    \E txn \in {ConvergeAndCommit(as, began.desired, oks).pending[1]} :
    \E outcome \in {StoreOutcome(allocEtcd, txn.cmps, do)} :
    \E after \in {ConvergeAndCommit(as, began.desired, Append(oks, outcome))} :
    \E err \in {IF after.err = "store error" THEN do ELSE after.err} :
        /\ allocEtcd' = StoreApply(allocEtcd,
                                   <<[cmps |-> txn.cmps, ops |-> txn.ops,
                                      outcome |-> outcome]>>)
        /\ serve' = [serve EXCEPT ![LocalMember(as).Key] =
               IF after.pending # <<>>
               THEN [began EXCEPT !.g = "txn", !.issued = after.issued]
               ELSE [began EXCEPT
                        !.g = "unlocked",
                        !.issued = after.issued,
                        !.roundErr = err,
                        !.txnResponse =
                            IF txn.by # "Commit" THEN @
                            ELSE IF outcome = "error" THEN 0
                            ELSE Len(allocEtcd'),
                        !.round = IF always \/ err = "nil" THEN @ + 1 ELSE @]]

\* A round of the leader that runs the solver in its first round only.
LeaderRoundSolvedOnce(sv, as) ==
    SchedulingIteration(sv, as, sv.lastNetworkHash = <<>>, FALSE)

\* A round of the leader that runs the solver every time.
LeaderRoundResolving(sv, as) ==
    SchedulingIteration(sv, as, TRUE, FALSE)

\* A round of the leader that counts itself completed whatever converge and
\* Commit returned.
LeaderRoundCounted(sv, as) ==
    SchedulingIteration(sv, as, as.networkHash # sv.lastNetworkHash, TRUE)

\* The round of a goroutine with locals sv that leads, from allocState as on:
\* it solves for the desired Assignments if the network has changed,
\* converges and commits; txnResponse is what Commit returned, and a round
\* without error is counted.
LeaderRound(sv, as) ==
    SchedulingIteration(sv, as, as.networkHash # sv.lastNetworkHash, FALSE)

\* One round of the goroutine, under the read lock of the KeySpace, up to
\* its RUnlock.
ServeRound(m) ==
    /\ serve[m].g = "loop"
    /\ \E sv \in {[serve[m] EXCEPT !.builtAt = serve[m].ksRev]} :
       \E keySpace \in {AllocKeySpace(sv.ksRev)} :
       \E as \in {NewState(keySpace, m)} :
       \E outcome \in {RoundOutcome(as.err,
                                    as.err = "nil" /\ shouldExit(as))} :
          \/ /\ outcome = "fail"
             /\ serve' = [serve EXCEPT ![m] =
                    Break([sv EXCEPT !.failErr = as.err], "newAllocState")]
             /\ UNCHANGED allocEtcd
          \/ /\ outcome = "exit"
             /\ serve' = [serve EXCEPT ![m] = Break(sv, "shouldExit")]
             /\ UNCHANGED allocEtcd
          \/ /\ outcome = "continue"
             /\ isLeader(as)
             /\ sv.txnResponse = 0 \/ sv.ksRev >= sv.txnResponse
             /\ LeaderRound(sv, as)
          \/ /\ outcome = "continue"
             /\ ~(/\ isLeader(as)
                  /\ sv.txnResponse = 0 \/ sv.ksRev >= sv.txnResponse)
             /\ serve' = [serve EXCEPT ![m] = [sv EXCEPT !.g = "unlocked"]]
             /\ UNCHANGED allocEtcd
    /\ UNCHANGED exceptAllocator

\* The store answers the transaction a round of the leader awaits, and the
\* round goes on, the read lock of the KeySpace held.
ServeTxn(m) ==
    /\ serve[m].g = "txn"
    /\ \E as \in {NewState(AllocKeySpace(serve[m].ksRev), m)} :
          LeaderRound(serve[m], as)
    /\ UNCHANGED exceptAllocator

\* The goroutine, having released the read lock, receives from signalCh: it
\* waits for a tick, and leaves its loop when the channel is closed.
ServeAwait(m) ==
    /\ \/ serve[m].g = "unlocked"
       \/ serve[m].g = "waiting" /\ serve[m].w = "returned"
    /\ serve' = [serve EXCEPT ![m] =
           IF serve[m].w = "returned"
           THEN Break(@, "closed")
           ELSE [@ EXCEPT !.g = "waiting"]]
    /\ UNCHANGED <<allocEtcd, exceptAllocator>>

\* Watch applies the responses of the store up to some revision, under the
\* write lock, and signals: the tick wakes the goroutine if it waits.
ServeWatchApply(m) ==
    /\ serve[m].w = "watching"
    /\ serve[m].g \notin {"loop", "txn"}
    /\ \E to \in (serve[m].ksRev + 1)..Len(allocEtcd) :
          serve' = [serve EXCEPT ![m] =
              [@ EXCEPT !.ksRev = to,
                        !.g = IF Signals(@ = "waiting") THEN "loop" ELSE @]]
    /\ UNCHANGED <<allocEtcd, exceptAllocator>>

\* Watch finds its context cancelled, closes signalCh and returns
\* context.Canceled; Serve returns failErr.
ServeWatchReturn(m) ==
    /\ serve[m].w = "watching"
    /\ serve[m].ctx # "live"
    /\ serve' = [serve EXCEPT ![m] =
           [@ EXCEPT !.w = "returned", !.err = serve[m].failErr]]
    /\ UNCHANGED <<allocEtcd, exceptAllocator>>

\* Watch fails with another error, which Serve returns.
ServeWatchFails(m) ==
    /\ serve[m].w = "watching"
    /\ serve' = [serve EXCEPT ![m] =
           [@ EXCEPT !.w = "returned", !.failErr = "watch error",
                     !.err = "watch error"]]
    /\ UNCHANGED <<allocEtcd, exceptAllocator>>

\* The caller of Serve cancels its context.
ServeCancel(m) ==
    /\ serve[m].w = "watching"
    /\ serve[m].ctx = "live"
    /\ serve' = [serve EXCEPT ![m].ctx = "cancelled"]
    /\ UNCHANGED <<allocEtcd, exceptAllocator>>

AllocNext ==
    \/ AllocUpdate
    \/ AllocInsert
    \/ AllocDelete
    \/ AllocDeleteItem
    \/ AllocInsertItem
    \/ \E m \in AllocMembers : ServeBegin(m)
    \/ \E m \in AllocMembers : ServeRound(m)
    \/ \E m \in AllocMembers : ServeTxn(m)
    \/ \E m \in AllocMembers : ServeAwait(m)
    \/ \E m \in AllocMembers : ServeWatchApply(m)
    \/ \E m \in AllocMembers : ServeWatchReturn(m)
    \/ \E m \in AllocMembers : ServeWatchFails(m)
    \/ \E m \in AllocMembers : ServeCancel(m)

AllocSpec == Init /\ [][AllocNext]_allVars

\* The Allocator under fair scheduling: the goroutine of Serve runs its round
\* and reaches its receive, Watch applies what the store has committed and
\* returns once its context is cancelled.  Nothing obliges the operators of
\* the store or the caller of Serve to act.  (A round is enabled exactly
\* while the goroutine is at the head of its loop, and takes it from there:
\* its weak fairness is that the goroutine is away from the head of its loop
\* again and again; so it is with the answer of the store to a transaction.)
AllocFairSpec ==
    /\ AllocSpec
    /\ \A m \in AllocMembers :
           /\ []<>(serve[m].g # "loop")
           /\ []<>(serve[m].g # "txn")
           /\ WF_allocator(ServeAwait(m))
           /\ WF_allocator(ServeWatchApply(m))
           /\ WF_allocator(ServeWatchReturn(m))

\* ------------------------------------------------------------- batchedTxn

\* The lengths of the runs of compares, or of ops, that one call adds.
RunLengths == {1, 127, 128}

\* What can become of a transaction in the store: it cannot succeed when it
\* asserts the fixed compare and the local Member key has been modified.
Outcomes(cmps) ==
    IF btxn.modified /\ \E i \in 1..Len(cmps) : cmps[i].cp = 0
    THEN {"error", "checks"}
    ELSE {"error", "checks", "ok"}

\* The ops of the transactions issued that took effect, each with whether
\* the local Member key had been modified by then.
Effect(issued) ==
    IF issued # <<>> /\ issued[1].outcome = "ok"
    THEN [i \in 1..Len(issued[1].ops) |->
             [cp |-> issued[1].ops[i].cp, n |-> issued[1].ops[i].n,
              modified |-> btxn.modified]]
    ELSE <<>>

\* The state after a call of Checkpoint or Commit that returned got.
Called(got, cp) ==
    [btxn EXCEPT !.b = got.b, !.err = got.err, !.cp = cp,
                 !.calls = @ + 1,
                 !.issued = @ \o got.issued,
                 !.applied = @ \o Effect(got.issued)]

\* txn.If(c...) and txn.Then(o...) for the checkpoint being built.
BtxnIf ==
    /\ btxn.calls < MaxTxnCalls
    /\ btxn.err # "panic"
    /\ \E n \in RunLengths :
          btxn' = [btxn EXCEPT !.b = TxnIf(@, <<[cp |-> btxn.cp, n |-> n]>>),
                               !.calls = @ + 1]
    /\ UNCHANGED exceptLeader

BtxnThen ==
    /\ btxn.calls < MaxTxnCalls
    /\ btxn.err # "panic"
    /\ \E n \in RunLengths :
          btxn' = [btxn EXCEPT !.b = TxnThen(@, <<[cp |-> btxn.cp, n |-> n]>>),
                               !.calls = @ + 1]
    /\ UNCHANGED exceptLeader

\* txn.Checkpoint().
BtxnCheckpoint ==
    /\ btxn.calls < MaxTxnCalls
    /\ btxn.err # "panic"
    /\ \E outcome \in {"error", "checks", "ok"} :
       \E got \in {TxnCheckpoint(btxn.b, outcome)} :
          /\ got.issued # <<>> => outcome \in Outcomes(got.issued[1].cmps)
          /\ got.issued = <<>> => outcome = "ok"
          /\ btxn' = [Called(got, btxn.cp + 1) EXCEPT !.added =
                 Append(@, [cmps |-> btxn.b.nextCmps, ops |-> btxn.b.nextOps])]
    /\ UNCHANGED exceptLeader

\* txn.Commit().
BtxnCommit ==
    /\ btxn.calls < MaxTxnCalls
    /\ btxn.err # "panic"
    /\ \E outcome \in {"error", "checks", "ok"} :
       \E got \in {TxnCommit(btxn.b, outcome)} :
          /\ got.issued # <<>> => outcome \in Outcomes(got.issued[1].cmps)
          /\ got.issued = <<>> => outcome = "ok"
          /\ btxn' = Called(got, btxn.cp)
    /\ UNCHANGED exceptLeader

\* Another client of the store modifies the local Member key.
BtxnMemberModified ==
    /\ ~btxn.modified
    /\ btxn' = [btxn EXCEPT !.modified = TRUE]
    /\ UNCHANGED exceptLeader

TxnNext ==
    \/ BtxnIf
    \/ BtxnThen
    \/ BtxnCheckpoint
    \/ BtxnCommit
    \/ BtxnMemberModified

TxnSpec == Init /\ [][TxnNext]_allVars

\* ---------------------------------------------------------------- converge
\*
\* converge(txn, as, desired) walks the Items of the allocState joined with
\* their Assignments, both sorted by Item ID, and builds one checkpoint for
\* each Item and one for the Assignments of each Item ID that has no Item.

ItemIDs == 1..NumItems

\* The least of a set of integers.
Least(S) == CHOOSE x \in S : \A y \in S : x <= y

\* The Assignments of the Item IDs from id on: slots[i] of them for ID i,
\* sorted by key.
RECURSIVE AssignmentsFrom(_, _)
AssignmentsFrom(id, slots) ==
    IF id > NumItems THEN <<>>
    ELSE [k \in 1..slots[id] |->
             [Key |-> <<id, k>>, ItemID |-> id, ModRevision |-> 1 + k]]
         \o AssignmentsFrom(id + 1, slots)

\* The Items of the IDs in has, sorted by key.
ItemsOf(has) ==
    SelectSeq([i \in ItemIDs |-> [ID |-> i]], LAMBDA item : item.ID \in has)

\* leftJoin.next, from Item l and Assignment r on (r..rightEnd - 1 are the
\* Assignments of Item l): the cursors of the Items in order, each passing
\* over the Assignments that sort before its Item.
RECURSIVE leftJoin(_, _, _, _)
leftJoin(items, asn, l, r) ==
    IF l > Len(items) THEN <<>>
    ELSE LET rightBegin ==
                 Least({i \in r..(Len(asn) + 1) :
                           i = Len(asn) + 1 \/ asn[i].ItemID >= items[l].ID})
             rightEnd ==
                 Least({i \in rightBegin..(Len(asn) + 1) :
                           i = Len(asn) + 1 \/ asn[i].ItemID # items[l].ID})
         IN  <<[left |-> l, rightBegin |-> rightBegin, rightEnd |-> rightEnd]>>
             \o leftJoin(items, asn, l + 1, rightEnd)

\* What a pass that got chk from Checkpoint goes on with.
AfterCheckpoint(t, chk) ==
    [b |-> chk.b, err |-> chk.err, issued |-> t.issued \o chk.issued,
     cp |-> t.cp + 1]

\* The loop of removeDeadAssignments over asn[i], i in from..limit - 1: a
\* compare and a delete for each.
RECURSIVE VerifyAndRemove(_, _, _, _, _)
VerifyAndRemove(b, asn, from, limit, cp) ==
    IF from = limit THEN b
    ELSE VerifyAndRemove(
             TxnThen(TxnIf(b, <<modRevisionUnchanged(asn[from], cp)>>),
                     <<DeleteAssignment(asn[from], cp)>>),
             asn, from + 1, limit, cp)

\* What becomes of the transactions one pass flushes, in turn: the first
\* k - 1 succeed and the k-th meets with x (the pass ends with the first that
\* does not succeed).  A pass of NumItems checkpoints flushes fewer than
\* NumItems times.
FlushOutcomes ==
    {[i \in 1..NumItems |-> IF i < k THEN "ok" ELSE x] :
        k \in 1..NumItems, x \in {"ok", "checks", "error"}}

\* What becomes of the next transaction flushed after those of t.
NextFlush(t, outcomes) == outcomes[Len(t.issued) + 1]

\* A removeDeadAssignments that does not verify that the Item is absent.
RECURSIVE removeDeadAssignmentsUnverified(_, _, _)
removeDeadAssignmentsUnverified(t, asn, outcomes) ==
    IF asn = <<>> THEN t
    ELSE LET itemID == asn[1].ItemID
             limit == Least({i \in 2..(Len(asn) + 1) :
                                i = Len(asn) + 1 \/ asn[i].ItemID # itemID})
             chk == TxnCheckpoint(VerifyAndRemove(t.b, asn, 1, limit, t.cp),
                                  NextFlush(t, outcomes))
         IN  IF chk.err # "nil" THEN AfterCheckpoint(t, chk)
             ELSE removeDeadAssignmentsUnverified(
                      AfterCheckpoint(t, chk),
                      SubSeq(asn, limit, Len(asn)), outcomes)

\* removeDeadAssignments(txn, ks, asn): for each Item ID of asn in turn, a
\* checkpoint that verifies that the Item does not exist and that each of
\* its Assignments is unchanged, and deletes them; the error of a Checkpoint
\* ends it.  outcomes is what becomes of each transaction the pass flushes.
RECURSIVE removeDeadAssignments(_, _, _)
removeDeadAssignments(t, asn, outcomes) ==
    IF asn = <<>> THEN t
    ELSE LET itemID == asn[1].ItemID
             limit == Least({i \in 2..(Len(asn) + 1) :
                                i = Len(asn) + 1 \/ asn[i].ItemID # itemID})
             chk == TxnCheckpoint(
                        VerifyAndRemove(
                            TxnIf(t.b, <<ItemIsAbsent(itemID, t.cp)>>),
                            asn, 1, limit, t.cp),
                        NextFlush(t, outcomes))
         IN  IF chk.err # "nil" THEN AfterCheckpoint(t, chk)
             ELSE removeDeadAssignments(AfterCheckpoint(t, chk),
                                        SubSeq(asn, limit, Len(asn)), outcomes)

\* itemState.constrainAndBuildOps(txn) for an Item whose desired Assignments
\* differ from its current ones by delta compares and ops: they make one
\* checkpoint.
constrainAndBuildOps(t, itemID, delta, outcomes) ==
    LET run == IF delta = 0 THEN <<>>
               ELSE <<[cp |-> t.cp, n |-> delta, op |-> "converge",
                       key |-> <<itemID>>]>>
        chk == TxnCheckpoint(TxnThen(TxnIf(t.b, run), run),
                             NextFlush(t, outcomes))
    IN  AfterCheckpoint(t, chk)

\* The loop of converge over the cursors left: the Assignments passed over
\* since the last cursor are removed, then the Item of the cursor is
\* converged; after the last cursor the trailing Assignments are removed.
RECURSIVE convergeFrom(_, _, _, _, _, _)
convergeFrom(t, as, desired, cursors, lastCRE, outcomes) ==
    IF cursors = <<>>
    THEN removeDeadAssignments(
             t, SubSeq(as.assignments, lastCRE, Len(as.assignments)), outcomes)
    ELSE LET cur == Head(cursors)
             dead == removeDeadAssignments(
                         t, SubSeq(as.assignments, lastCRE, cur.rightBegin - 1),
                         outcomes)
             built == constrainAndBuildOps(dead, as.items[cur.left].ID,
                                           desired[cur.left], outcomes)
         IN  IF dead.err # "nil" THEN dead
             ELSE IF built.err # "nil" THEN built
             ELSE convergeFrom(built, as, desired, Tail(cursors),
                               cur.rightEnd, outcomes)

\* converge(txn, as, desired), where desired[l] is the size of the delta of
\* the desired Assignments of Item l against its current ones.
convergePass(t, as, desired, outcomes) ==
    convergeFrom(t, as, desired,
                 leftJoin(as.items, as.assignments, 1, 1), 1, outcomes)

\* The sizes of the delta of one Item.
DeltaSizes == {0, 127}

\* The leader has an allocState and desired Assignments to converge to.
ConvergeBegin ==
    /\ conv.pc = "idle"
    /\ \E has \in SUBSET ItemIDs :
       \E slots \in [ItemIDs -> 0..MaxSlots] :
       \E desired \in [1..Cardinality(has) -> DeltaSizes] :
          conv' = [conv EXCEPT
                      !.pc = "called",
                      !.as = [items |-> ItemsOf(has),
                              assignments |-> AssignmentsFrom(1, slots)],
                      !.desired = desired]
    /\ UNCHANGED exceptConverge

\* converge runs and returns; the transactions it flushes, each a round trip
\* to the store, meet each with its own outcome: the ops of the ones that
\* succeeded have taken effect when a later one fails.
ConvergeReturn ==
    /\ conv.pc = "called"
    /\ \E outcomes \in FlushOutcomes :
          conv' = [conv EXCEPT
                      !.pc = "returned",
                      !.txn = convergePass(@, conv.as, conv.desired, outcomes)]
    /\ UNCHANGED exceptConverge

ConvergeNext ==
    \/ ConvergeBegin
    \/ ConvergeReturn

ConvergeSpec == Init /\ [][ConvergeNext]_allVars

\* ------------------------------------------------------------ flow network
\*
\* The leader builds a flow network of the Items and Members of its
\* allocState, finds a maximum flow and extracts the desired Assignments of
\* each Item: the Members its flow reaches.

FlowMembers == {"m1", "m2", "m3"}
FlowItems == {"i1", "i2"}
FlowZones == {"zone-a", "zone-b"}
MemberRs == {0, 1, 2}
ItemRs == {1, 2, 3}

\* The zones of the Members of a network.
Zones(net) == {net.members[m].zone : m \in FlowMembers}

\* An Item may send all of its flow through one zone.
ZoneCapacityOfItem(net, item) == net.items[item].R

\* The capacity of the arc from an Item to each of its zones: Item.R, and one
\* less if R > 1 and there are several zones.
ZoneCapacity(net, item) ==
    IF net.items[item].R > 1 /\ Cardinality(Zones(net)) > 1
    THEN net.items[item].R - 1
    ELSE net.items[item].R

\* The Members an Item is assigned to by a set of Assignments.
extractItemFlow(assignments, item) ==
    {m \in FlowMembers : <<item, m>> \in assignments}

\* A set of Assignments is a flow of the network: the source sends Item.R to
\* each Item, the Item ZoneCapacity to each zone, the zone 1 to each of its
\* Members with R > 0, and each Member sends Member.R to the sink.
IsFlow(net, assignments) ==
    /\ \A item \in FlowItems :
          /\ Cardinality(extractItemFlow(assignments, item)) <= net.items[item].R
          /\ \A zone \in Zones(net) :
                Cardinality({m \in extractItemFlow(assignments, item) :
                                net.members[m].zone = zone})
                    <= ZoneCapacity(net, item)
    /\ \A m \in FlowMembers :
          /\ Cardinality({item \in FlowItems : <<item, m>> \in assignments})
                 <= net.members[m].R
          /\ net.members[m].R = 0
             => \A item \in FlowItems : <<item, m>> \notin assignments

\* push_relabel.FindMaxFlow: the flows of the greatest value.
FindMaxFlow(net) ==
    LET flows == {assignments \in SUBSET (FlowItems \X FlowMembers) :
                     IsFlow(net, assignments)}
    IN  {best \in flows :
            \A other \in flows : Cardinality(other) <= Cardinality(best)}

\* The leader has an allocState of some Members and Items.
FlowInit ==
    /\ flow.pc = "idle"
    /\ \E members \in [FlowMembers -> [zone : FlowZones, R : MemberRs]] :
       \E items \in [FlowItems -> [R : ItemRs]] :
          flow' = [flow EXCEPT !.pc = "built", !.members = members,
                               !.items = items]
    /\ UNCHANGED exceptFlow

\* The solver finds a maximum flow, and the desired Assignments are extracted.
FlowSolve ==
    /\ flow.pc = "built"
    /\ \E desired \in FindMaxFlow(flow) :
          flow' = [flow EXCEPT !.pc = "solved", !.desired = desired]
    /\ UNCHANGED exceptFlow

FlowNext ==
    \/ FlowInit
    \/ FlowSolve

FlowSpec == Init /\ [][FlowNext]_allVars

\* ------------------------------------------------------------ Append stream
\*
\* The loop of serveAppend over one Append stream, whatever the client sends
\* after the first message: each result of RecvMsg goes to onRecv.

\* What a client may send after the first message: Content, or a message
\* that bears a Journal again, valid or not, with Content or without.
LaterMessages ==
    ClientMessages
        \cup {AppendRequest("a/journal", TRUE, <<>>),
              AppendRequest("a journal", FALSE, <<>>)}

LaterResults ==
    {[req |-> m, err |-> "nil"] : m \in LaterMessages}
        \cup {[req |-> AppendRequest("", TRUE, <<>>), err |-> e] :
                e \in ClientErrors \cup {"EOF"}}

\* The Spools an Append may find: a new one; one rolled to the spec's codec
\* that holds nothing yet (an Append rolled it and committed nothing); one
\* that holds committed content short of the target length; one at the
\* target length.
StreamSpools ==
    {[Fragment |-> f, delta |-> <<>>] :
        f \in {ZeroFragment,
               Fragment(0, 0, 0, SpecCodec, ""),
               Fragment(0, 1, sumOf(<<1>>), SpecCodec, ""),
               Fragment(0, SpecLength, sumOf([i \in 1..SpecLength |-> i]), SpecCodec, "")}}

\* serveAppend begins on a new pipeline, with the Spool as the Appends
\* before left it: beginAppending.  before is the Spool's Fragment as found,
\* proposed what beginAppending scattered.
StreamBegin ==
    /\ stream.pc = "idle"
    /\ \E sp \in StreamSpools :
       \E bg \in {beginAppending(NewPipeline(1), sp, 1, {})} :
          stream' = [stream EXCEPT !.pc = "recv", !.pln = bg.pln,
                                   !.spool = bg.spool,
                                   !.appender = bg.appender, !.more = TRUE,
                                   !.before = sp.Fragment,
                                   !.proposed = bg.scattered]
    /\ UNCHANGED exceptStream

\* One turn of the loop of serveAppend: onRecv(req, stream.RecvMsg(req)).
StreamRecv ==
    /\ stream.pc = "recv"
    /\ stream.more
    /\ Len(stream.recvd) < MaxLater
    /\ \E in \in LaterResults :
       \E on \in {onRecv(stream.pln, stream.spool, stream.appender, 1, in, {})} :
          stream' = [stream EXCEPT !.recvd = Append(@, in),
                                   !.forwarded = Append(@, on.req),
                                   !.pln = on.pln, !.spool = on.spool,
                                   !.appender = on.appender, !.more = on.more]
    /\ UNCHANGED exceptStream

StreamNext ==
    \/ StreamBegin
    \/ StreamRecv

StreamSpec == Init /\ [][StreamNext]_allVars

\* ------------------------------------------------------------------ Validate

\* Journal.Validate of the names the model sends.
JournalValidate(j) ==
    IF j \in {"a/journal", "b/journal"} THEN "nil" ELSE "invalid Journal"

\* url.Parse: whether the string parses as a URL.
UrlParse(s) == IF s = ":bad" THEN "missing protocol scheme" ELSE "nil"

\* A pointer or slice field is a sequence: <<>> is nil, <<v>> holds v.
Nil == <<>>
Ptr(v) == <<v>>
Deref(p) == p[1]

\* A ReadResponse.Validate that does not compare WriteHead with the Fragment.
ReadResponseValidateAnyWriteHead(m) ==
    CASE StatusValidate(m.Status) # "nil" -> "Status"
      [] m.Content # Nil ->
            (CASE m.Status # "OK" -> "unexpected Status with Content"
               [] m.Offset # 0 -> "unexpected Offset with Content"
               [] m.WriteHead # 0 -> "unexpected WriteHead with Content"
               [] m.Route # Nil -> "unexpected Route with Content"
               [] m.Fragment # Nil -> "unexpected Fragment with Content"
               [] m.FragmentUrl # "" -> "unexpected FragmentUrl with Content"
               [] OTHER -> "nil")
      [] m.Route # Nil /\ RouteValidate(Deref(m.Route)) # "nil" -> "Route"
      [] m.WriteHead < 0 -> "invalid WriteHead"
      [] m.Fragment # Nil ->
            (CASE FragmentValidate(Deref(m.Fragment)) # "nil" -> "Fragment"
               [] m.Offset < Deref(m.Fragment).Begin
                  \/ m.Offset >= Deref(m.Fragment).End -> "invalid Offset"
               [] m.FragmentUrl # "" /\ UrlParse(m.FragmentUrl) # "nil" -> "FragmentUrl"
               [] OTHER -> "nil")
      [] m.Offset # 0 -> "unexpected Offset without Fragment"
      [] m.FragmentUrl # "" -> "unexpected FragmentUrl without Fragment"
      [] OTHER -> "nil"

\* ReadResponse.Validate: the first failure, or nil.  A response with
\* Content bears nothing else; one without bears a WriteHead, and an Offset
\* within its Fragment and a WriteHead at or past its End, or no Fragment
\* and no Offset.
ReadResponseValidate(m) ==
    CASE StatusValidate(m.Status) # "nil" -> "Status"
      [] m.Content # Nil ->
            (CASE m.Status # "OK" -> "unexpected Status with Content"
               [] m.Offset # 0 -> "unexpected Offset with Content"
               [] m.WriteHead # 0 -> "unexpected WriteHead with Content"
               [] m.Route # Nil -> "unexpected Route with Content"
               [] m.Fragment # Nil -> "unexpected Fragment with Content"
               [] m.FragmentUrl # "" -> "unexpected FragmentUrl with Content"
               [] OTHER -> "nil")
      [] m.Route # Nil /\ RouteValidate(Deref(m.Route)) # "nil" -> "Route"
      [] m.WriteHead < 0 -> "invalid WriteHead"
      [] m.Fragment # Nil ->
            (CASE FragmentValidate(Deref(m.Fragment)) # "nil" -> "Fragment"
               [] m.Offset < Deref(m.Fragment).Begin
                  \/ m.Offset >= Deref(m.Fragment).End -> "invalid Offset"
               [] m.WriteHead < Deref(m.Fragment).End -> "invalid WriteHead"
               [] m.FragmentUrl # "" /\ UrlParse(m.FragmentUrl) # "nil" -> "FragmentUrl"
               [] OTHER -> "nil")
      [] m.Offset # 0 -> "unexpected Offset without Fragment"
      [] m.FragmentUrl # "" -> "unexpected FragmentUrl without Fragment"
      [] OTHER -> "nil"

\* A ReplicateRequest.Validate that lets a later message bear a Route.
ReplicateRequestValidateAnyRoute(m) ==
    CASE m.Journal # "" ->
            (CASE JournalValidate(m.Journal) # "nil" -> "Journal"
               [] m.Route = Nil -> "expected Route with Journal"
               [] RouteValidate(Deref(m.Route)) # "nil" -> "Route"
               [] m.Proposal = Nil -> "expected Proposal with Journal"
               [] FragmentValidate(Deref(m.Proposal)) # "nil" -> "Proposal"
               [] Deref(m.Proposal).Journal # m.Journal ->
                     "Journal and Proposal.Journal mismatch"
               [] m.Content # Nil -> "unexpected Content with Journal"
               [] m.ContentDelta # 0 -> "unexpected ContentDelta with Journal"
               [] ~m.Acknowledge -> "expected Acknowledge with Journal"
               [] OTHER -> "nil")
      [] m.Proposal # Nil ->
            (CASE FragmentValidate(Deref(m.Proposal)) # "nil" -> "Proposal"
               [] m.Content # Nil -> "unexpected Content with Proposal"
               [] m.ContentDelta # 0 -> "unexpected ContentDelta with Proposal"
               [] OTHER -> "nil")
      [] m.Content = Nil -> "expected Content or Proposal"
      [] m.Acknowledge -> "unexpected Acknowledge with Content"
      [] m.ContentDelta < 0 -> "invalid ContentDelta"
      [] OTHER -> "nil"

\* ReplicateRequest.Validate: the first failure, or nil.  A message with a
\* Journal is an initial one; a later one bears a Proposal, or else Content.
ReplicateRequestValidate(m) ==
    CASE m.Journal # "" ->
            (CASE JournalValidate(m.Journal) # "nil" -> "Journal"
               [] m.Route = Nil -> "expected Route with Journal"
               [] RouteValidate(Deref(m.Route)) # "nil" -> "Route"
               [] m.Proposal = Nil -> "expected Proposal with Journal"
               [] FragmentValidate(Deref(m.Proposal)) # "nil" -> "Proposal"
               [] Deref(m.Proposal).Journal # m.Journal ->
                     "Journal and Proposal.Journal mismatch"
               [] m.Content # Nil -> "unexpected Content with Journal"
               [] m.ContentDelta # 0 -> "unexpected ContentDelta with Journal"
               [] ~m.Acknowledge -> "expected Acknowledge with Journal"
               [] OTHER -> "nil")
      [] m.Route # Nil -> "unexpected Route without Journal"
      [] m.Proposal # Nil ->
            (CASE FragmentValidate(Deref(m.Proposal)) # "nil" -> "Proposal"
               [] m.Content # Nil -> "unexpected Content with Proposal"
               [] m.ContentDelta # 0 -> "unexpected ContentDelta with Proposal"
               [] OTHER -> "nil")
      [] m.Content = Nil -> "expected Content or Proposal"
      [] m.Acknowledge -> "unexpected Acknowledge with Content"
      [] m.ContentDelta < 0 -> "invalid ContentDelta"
      [] OTHER -> "nil"

\* The fields the messages given to the Validates are drawn from: Routes
\* (none, valid, with a Primary that is no broker of it), Fragments (none,
\* from 0, from 1, with Begin past End), byte slices (nil, empty, not empty).
ValidateStatuses == {"OK", "NOT_FOUND", "bogus"}
ValidateOffsets == (0 - 1)..2
ValidateRoutes ==
    {Nil, Ptr([Brokers |-> <<1>>, Primary |-> 0]), Ptr([Brokers |-> <<1>>, Primary |-> 1])}
ValidateContents == {Nil, Ptr(<<>>), Ptr(<<1>>)}
ValidateUrls == {"", "http://host/path", ":bad"}
ValidateJournals == {"", "a/journal", "bad journal"}
ValidateFragments(journals) ==
    {Nil} \cup {Ptr([Journal |-> j, Begin |-> f[1], End |-> f[2]]) :
                    j \in journals, f \in {<<0, 2>>, <<1, 2>>, <<2, 1>>}}

\* ReadResponse.Validate of some response (one call is followed).
ValidateReadResponse ==
    /\ validated.kind = "none"
    /\ \E m \in [Status : ValidateStatuses, Content : ValidateContents,
              Offset : ValidateOffsets, WriteHead : ValidateOffsets,
              Route : ValidateRoutes, Fragment : ValidateFragments({"a/journal"}),
              FragmentUrl : ValidateUrls] :
          /\ validated' = [kind |-> "ReadResponse", m |-> m,
                           err |-> ReadResponseValidate(m)]
          /\ UNCHANGED exceptValidate

\* ReplicateRequest.Validate of some request (one call is followed).
ValidateReplicateRequest ==
    /\ validated.kind = "none"
    /\ \E m \in [Journal : ValidateJournals, Route : ValidateRoutes,
              Proposal : ValidateFragments({"a/journal", "b/journal"}),
              Content : ValidateContents, ContentDelta : ValidateOffsets,
              Acknowledge : BOOLEAN] :
          /\ validated' = [kind |-> "ReplicateRequest", m |-> m,
                           err |-> ReplicateRequestValidate(m)]
          /\ UNCHANGED exceptValidate

ValidateNext == ValidateReadResponse \/ ValidateReplicateRequest

ValidateSpec == Init /\ [][ValidateNext]_allVars

\* ---------------------------------------------------------------- WriteClient

\* The sizes of the content of one call: a byte, or a whole spool.
WriteSizes == {1, kMaxWriteSpoolSize}

\* What becomes of one ReadFrom: it succeeds, the pool of pending writes
\* fails (no spool file could be made), or the copy into the spool fails.
ReadFromOutcomes == {"ok", "pool error", "copy error"}

\* obtainWrite(name): the indexed pending write of the journal if it has one
\* below kMaxWriteSpoolSize; else a new one from the pool, which is indexed
\* (write 0 and an error if the pool fails).
obtainWrite(wc, name, outcome) ==
    IF wc.writeIndex[name] # 0
       /\ wc.writes[wc.writeIndex[name]].offset < kMaxWriteSpoolSize
    THEN [wc |-> wc, write |-> wc.writeIndex[name], isNew |-> FALSE, err |-> "nil"]
    ELSE IF outcome = "pool error"
    THEN [wc |-> wc, write |-> 0, isNew |-> FALSE, err |-> "pool error"]
    ELSE [wc |-> [wc EXCEPT
                    !.writes = Append(@, [journal |-> name, offset |-> 0,
                                          content |-> <<>>, resolved |-> FALSE,
                                          abandoned |-> FALSE]),
                    !.writeIndex[name] = Len(wc.writes) + 1],
          write |-> Len(wc.writes) + 1, isNew |-> TRUE, err |-> "nil"]

\* writeAllOrNone(write, r) for the content of call c, of n bytes: all of it
\* is added to the spool, or on an error none of it.
writeAllOrNone(wc, write, c, n, outcome) ==
    IF outcome = "copy error" THEN [wc |-> wc, err |-> "copy error"]
    ELSE [wc |-> [wc EXCEPT !.writes[write].offset = @ + n,
                            !.writes[write].content = Append(@, c)],
          err |-> "nil"]

\* A ReadFrom that sends every pending write it obtained to the queue, new or
\* not.
ReadFromEnqueuesAlways(isNew, err) == err = "nil"

\* ReadFrom sends the pending write to writeQueue when it is a new one and
\* the copy succeeded.
ReadFromEnqueues(isNew, err) == err = "nil" /\ isNew

\* WriteClient.ReadFrom(name, r), under writeIndexMu: obtainWrite and
\* writeAllOrNone.  The call returns the error, or the promise of the write;
\* a new write is then sent to writeQueue, after the mutex is released.
ReadFrom(name, n, outcome) ==
    /\ ~wclient.panicked
    /\ Len(wclient.calls) < MaxWrites
    /\ \E c \in {Len(wclient.calls) + 1} :
       \E ob \in {obtainWrite(wclient, name, outcome)} :
       \E wr \in {IF ob.err = "nil" THEN writeAllOrNone(ob.wc, ob.write, c, n, outcome)
                  ELSE [wc |-> ob.wc, err |-> ob.err]} :
          wclient' = [wr.wc EXCEPT !.calls = Append(@,
              [journal |-> name, write |-> ob.write, isNew |-> ob.isNew,
               err |-> wr.err,
               promise |-> IF wr.err = "nil" THEN ob.write ELSE 0,
               pc |-> IF ReadFromEnqueues(ob.isNew, wr.err) THEN "enqueue"
                      ELSE "returned"])]
    /\ UNCHANGED exceptWriteClient

\* ReadFrom of call c: c.writeQueue <- write.  A send on the queue that
\* Close has closed panics.
ReadFromEnqueue(c) ==
    /\ ~wclient.panicked
    /\ wclient.calls[c].pc = "enqueue"
    /\ wclient' =
          IF wclient.queueClosed
          THEN [wclient EXCEPT !.calls[c].pc = "panic", !.panicked = TRUE]
          ELSE [wclient EXCEPT
                   !.writeQueue = Append(@, wclient.calls[c].write),
                   !.enqueued = Append(@, wclient.calls[c].write),
                   !.calls[c].pc = "returned"]
    /\ UNCHANGED exceptWriteClient

\* WriteClient.Close(): close(c.writeQueue); the call then waits for closed.
WriteClose ==
    /\ ~wclient.panicked
    /\ wclient.closer = "none"
    /\ wclient' = [wclient EXCEPT !.queueClosed = TRUE, !.closer = "wait"]
    /\ UNCHANGED exceptWriteClient

\* c.closed.Wait() of Close returns once closed is resolved.
WriteCloseReturn ==
    /\ ~wclient.panicked
    /\ wclient.closer = "wait"
    /\ wclient.resolves > 0
    /\ wclient' = [wclient EXCEPT !.closer = "returned"]
    /\ UNCHANGED exceptWriteClient

\* serveWrites of worker w: write := <-c.writeQueue.  A closed queue gives
\* what it still holds and then nil, on which the worker leaves its loop,
\* resolves closed and returns.
ServeWritesRecv(w) ==
    /\ ~wclient.panicked
    /\ wclient.workers[w].pc = "recv"
    /\ wclient.writeQueue # <<>> \/ wclient.queueClosed
    /\ wclient' =
          IF wclient.writeQueue # <<>>
          THEN [wclient EXCEPT
                   !.writeQueue = Tail(@),
                   !.workers[w] = [pc |-> "lock", write |-> Head(wclient.writeQueue),
                                   owned |-> <<>>]]
          ELSE [wclient EXCEPT
                   !.workers[w].pc = "exited",
                   !.resolves = @ + 1]
    /\ UNCHANGED exceptWriteClient

\* serveWrites, under writeIndexMu: the write is deleted from the index if
\* it is the journal's indexed one.
Deindexed(index, journal, write) ==
    IF index[journal] = write THEN [index EXCEPT ![journal] = 0] ELSE index

\* serveWrites of worker w, under writeIndexMu: the write leaves the index;
\* the worker then owns it (owned: its content as the worker took it).
ServeWritesDeindex(w) ==
    /\ ~wclient.panicked
    /\ wclient.workers[w].pc = "lock"
    /\ \E write \in {wclient.workers[w].write} :
          wclient' = [wclient EXCEPT
             !.writeIndex = Deindexed(@, wclient.writes[write].journal, write),
             !.workers[w].pc = "put",
             !.workers[w].owned = wclient.writes[write].content]
    /\ UNCHANGED exceptWriteClient

\* What one turn of onWrite's loop may come to: the Put is acknowledged, the
\* Put fails, or the Seek(0, 0) before it fails.
OnWriteOutcomes == {"ok", "put error", "seek error"}

\* onWrite of worker w: one turn of its loop, Seek(0, 0) and one Put of the
\* spool up to the write's offset.  (A write's Seek fails at most once: the
\* write is given up on it.)  A Seek that fails is not recoverable:
\* onWrite returns its error, the write is neither Put again, nor resolved,
\* nor released, and the worker reads the queue again.  A Put that fails is
\* tried again after the cool-off; one that succeeds resolves the promise and
\* releases the write, and the worker reads the queue again.
OnWritePut(w, outcome) ==
    /\ ~wclient.panicked
    /\ wclient.workers[w].pc = "put"
    /\ outcome = "put error" => wclient.failures < MaxPutFailures
    /\ \E write \in {wclient.workers[w].write} :
          wclient' =
             IF outcome = "seek error"
             THEN [wclient EXCEPT
                      !.writes[write].abandoned = TRUE,
                      !.workers[w] = [pc |-> "recv", write |-> 0, owned |-> <<>>]]
             ELSE [wclient EXCEPT
                      !.puts = Append(@, [write |-> write, ok |-> outcome = "ok",
                                          content |-> wclient.writes[write].content]),
                      !.failures = IF outcome = "ok" THEN @ ELSE @ + 1,
                      !.writes[write].resolved = (outcome = "ok"),
                      !.workers[w] = IF outcome = "ok"
                                     THEN [pc |-> "recv", write |-> 0, owned |-> <<>>]
                                     ELSE @]
    /\ UNCHANGED exceptWriteClient

\* The journals a call may name.  The journals are alike, so the first call
\* is taken to name "a".
FirstOrAnyJournal == IF wclient.calls = <<>> THEN {"a"} ELSE WriteJournals

WriteNext ==
    \/ \E name \in FirstOrAnyJournal, n \in WriteSizes,
          outcome \in ReadFromOutcomes :
          ReadFrom(name, n, outcome)
    \/ \E c \in 1..Len(wclient.calls) : ReadFromEnqueue(c)
    \/ \E w \in Workers : ServeWritesRecv(w)
    \/ \E w \in Workers : ServeWritesDeindex(w)
    \/ \E w \in Workers, outcome \in OnWriteOutcomes : OnWritePut(w, outcome)
    \/ WriteClose
    \/ WriteCloseReturn

WriteSpec == Init /\ [][WriteNext]_allVars

\* --------------------------------------------------------------------- Client

\* A URL, as far as Do rewrites it: Host (with Scheme and User) and Path.
Location(host, path) == [Host |-> host, Path |-> path]

ClientLocations == {Location(h, p) : h \in ClientHosts, p \in ClientPaths}

\* What httpClient.Do may return for a request sent to url: an error; or a
\* response that bears a Location header, one whose Location header does
\* not parse, one reached by following redirects (response.Request.URL is
\* not the URL of the request), or one with none of these.
TransportOutcomes(url) ==
    {[kind |-> k, location |-> <<>>] : k \in {"error", "bad location", "response"}}
        \cup {[kind |-> "location", location |-> <<l>>] : l \in ClientLocations}
        \cup {[kind |-> "redirected", location |-> <<l>>] : l \in ClientLocations \ {url}}

\* The URL Do sends a request for path to: the cached location of the path
\* (Scheme, User, Host and Path are rewritten), else the default endpoint
\* with the Path as it is.
Rewritten(cl, path) ==
    IF cl.locationCache[path] # <<>> THEN cl.locationCache[path][1]
    ELSE Location(defaultEndpoint, path)

\* Client.Do(request) once httpClient.Do has returned out for the request
\* sent to url: the cache is updated under request.URL.Path as it is after
\* the rewrite: the entry is removed on an error, and set to the Location
\* header of the response, else to the URL a redirect led to.
Do(cl, path, url, out) ==
    LET key == url.Path
    IN  [cl EXCEPT
            !.locationCache =
                IF out.kind = "error" THEN [@ EXCEPT ![key] = <<>>]
                ELSE IF out.kind \in {"location", "redirected"}
                THEN [@ EXCEPT ![key] = out.location]
                ELSE @,
            !.last = [path |-> path, host |-> url.Host, sent |-> url.Path,
                      outcome |-> out]]

\* Caller c calls Client.Do for path: the cache is looked up, the request is
\* rewritten and handed to httpClient.Do.  No lock is held while the
\* transport has the request.
ClientDoSend(c) ==
    /\ client.doing[c] = <<>>
    /\ \E path \in ClientPaths :
          client' = [client EXCEPT
             !.doing[c] = <<[path |-> path, url |-> Rewritten(client, path)]>>]
    /\ UNCHANGED exceptClient

\* httpClient.Do returns to caller c, and Do updates the cache and returns.
ClientDo(c) ==
    /\ client.doing[c] # <<>>
    /\ \E d \in {client.doing[c][1]} :
       \E out \in TransportOutcomes(d.url) :
          client' = [Do(client, d.path, d.url, out) EXCEPT !.doing[c] = <<>>]
    /\ UNCHANGED exceptClient

ClientNext ==
    \/ \E c \in ClientCallers : ClientDoSend(c)
    \/ \E c \in ClientCallers : ClientDo(c)

ClientSpec == Init /\ [][ClientNext]_allVars

\* ------------------------------------------------------------------ claims

\* The positions of order.
Releases == 1..Len(order)

\* C1.  Of two Appends served on the same pipeline, the one that released the
\* send half first has finished gathering and closed its closeAfter (it has
\* returned) before the other gathers; and what an Append gathers are the
\* responses to its own requests: responses are read in the order the sends
\* were issued.
C1_BarrierChainOrder ==
    /\ \A i, j \in Releases :
           (/\ i < j
            /\ order[i].pln = order[j].pln
            /\ pc[order[j].a] \in {"return", "done"})
           => pc[order[i].a] = "done"
    /\ \A a \in Appends : pc[a] = "return" => gathered[a] \subseteq {a}

\* Two Appends of one pipeline: the first has returned, the second has
\* gathered the responses to its own proposal.
C1_Witness ==
    \E i, j \in Releases :
        /\ i < j
        /\ order[i].pln = order[j].pln
        /\ pc[order[i].a] = "done"
        /\ pc[order[j].a] = "return"
        /\ gathered[order[j].a] = {order[j].a}

\* The holders of the send half of pipeline p: the Appends in the loop of
\* serveAppend on it.
SendHolders(p) == {a \in Appends : myPln[a] = p /\ pc[a] = "recv"}

\* The holders of the receive half of pipeline p: the Appends past their
\* <-waitFor (it does not block them, or they have gathered) that have not
\* closed their closeAfter yet.
RecvHolders(p) ==
    {a \in Appends :
        /\ myPln[a] = p
        /\ pc[a] = "return" \/ (pc[a] = "wait" /\ AwaitBarrier(a))
        /\ barrier[a].closeAfter \notin plns[p].closedChs}

\* C2.  In every reachable state every pipeline has at most one holder of its
\* send half, none while the pipeline lies in the channel, and at most one
\* holder of its receive half.
C2_OneHolderPerHalf ==
    \A p \in 1..Len(plns) :
        /\ Cardinality(SendHolders(p)) <= 1
        /\ Cardinality(RecvHolders(p)) <= 1
        /\ pipelineCh = <<p>> => SendHolders(p) = {}

\* The two halves of one pipeline held by different Appends.
C2_Witness ==
    \E p \in 1..Len(plns) : \E a, b \in Appends :
        a # b /\ a \in SendHolders(p) /\ b \in RecvHolders(p)

\* The Appends that returned a Commit to their client.
Succeeded(a) ==
    pc[a] = "done" /\ rpc[a].err = "nil" /\ rpc[a].resp.sent /\ rpc[a].resp.hasCommit

\* The Appends that have proposed their commit on a pipeline all sends of
\* which succeeded, and have not returned yet.
Proposed(a) ==
    pc[a] \in {"wait", "return"} /\ appender[a].hasFragment /\ plnSendErr[a] = "nil"

\* The Commit of a: the one returned, or the one proposed.
CommitOf(a) == IF pc[a] = "done" THEN rpc[a].resp.Commit ELSE appender[a].reqFragment

\* C3.  The Commits of two Appends, in the order they were proposed, do not
\* overlap: the first ends where the second begins or before.  This holds of
\* the Commits returned and of the ones proposed and not yet acknowledged
\* (the second Append began and proposed while the first had yet to gather).
C3_CommitsInOrder ==
    \A i, j \in Releases :
        (/\ i < j
         /\ Succeeded(order[i].a) \/ Proposed(order[i].a)
         /\ Succeeded(order[j].a) \/ Proposed(order[j].a))
        => CommitOf(order[i].a).End <= CommitOf(order[j].a).Begin

\* Two Appends that succeeded, the first of which appended content.
C3_Witness ==
    \E i, j \in Releases :
        /\ i < j
        /\ Succeeded(order[i].a) /\ Succeeded(order[j].a)
        /\ ContentLength(CommitOf(order[i].a)) > 0

\* C4 (as amended).  The Commit.End of a successful Append is no less than
\* that of every successful Append committed before it, and greater when the
\* Append appended at least one byte.
C4_CommitEndMonotonic ==
    \A i, j \in Releases :
        (i < j /\ Succeeded(order[i].a) /\ Succeeded(order[j].a))
        => /\ CommitOf(order[j].a).End >= CommitOf(order[i].a).End
           /\ ContentLength(CommitOf(order[j].a)) > 0
                 => CommitOf(order[j].a).End > CommitOf(order[i].a).End

\* Two Appends that succeeded, the second of which appended content.
C4_Witness ==
    \E i, j \in Releases :
        /\ i < j
        /\ Succeeded(order[i].a) /\ Succeeded(order[j].a)
        /\ ContentLength(CommitOf(order[j].a)) > 0

\* C4 as stated: the Commit.End of a successful Append is strictly greater
\* than that of every successful Append committed before it.
C4_AsStated ==
    \A i, j \in Releases :
        (i < j /\ Succeeded(order[i].a) /\ Succeeded(order[j].a))
        => CommitOf(order[j].a).End > CommitOf(order[i].a).End

\* The bytes of the content requests among reqs, in order.
RECURSIVE ContentOf(_)
ContentOf(reqs) ==
    IF reqs = <<>> THEN <<>> ELSE Head(reqs).Content \o ContentOf(Tail(reqs))

\* The requests of reqs that ask for an acknowledgement, by position.
Acknowledged(reqs) == {k \in 1..Len(reqs) : reqs[k].Acknowledge}

\* Before its last request a scattered content only, but for the proposal
\* of beginAppending, which comes first and asks for no acknowledgement.
ContentThenLast(reqs) ==
    \A k \in 1..(Len(reqs) - 1) :
        \/ reqs[k].kind = "content"
        \/ k = 1 /\ reqs[k].kind = "proposal" /\ ~reqs[k].Acknowledge

\* The Appends whose stream ended with EOF, no send of which failed, that
\* have not returned yet.
CleanEOF(a) == Proposed(a)

\* C5.  After a clean EOF and without a send error, the last request the
\* Append scattered, after all its content, is its only one that asks for an
\* acknowledgement, and proposes Spool.Next(): the Fragment that begins at the
\* End the Spool had when the Append began and ends past it by the bytes the
\* Append appended; the Commit of the response has that Begin and End, and
\* the digest of exactly those bytes as its Sum.
C5_CommitProposalOnEOF ==
    \A a \in Appends : CleanEOF(a) =>
        LET reqs == scattered[a]
            last == reqs[Len(reqs)]
            bytes == ContentOf(reqs)
            commit == ServeAppendResponse(plns[myPln[a]], appender[a]).Commit
        IN  /\ Len(reqs) >= 1
            /\ Acknowledged(reqs) = {Len(reqs)}
            /\ ContentThenLast(reqs)
            /\ last = ProposalRequest(
                   SpoolNext([Fragment |-> spoolAt[a].begun, delta |-> bytes]), TRUE)
            /\ last.Proposal.Begin = spoolAt[a].begun.End
            /\ last.Proposal.End = spoolAt[a].begun.End + Len(bytes)
            /\ ServeAppendResponse(plns[myPln[a]], appender[a]).hasCommit
            /\ commit.Begin = last.Proposal.Begin
            /\ commit.End = last.Proposal.End
            /\ commit.Sum = sumOf(bytes)

\* An Append that sent content and then EOF, all peers have acknowledged its
\* proposal, and it is about to respond.
C5_Witness ==
    \E a \in Appends :
        /\ CleanEOF(a)
        /\ pc[a] = "return"
        /\ PlnRecvErr(plns[myPln[a]]) = "nil"
        /\ Len(ContentOf(scattered[a])) > 0

\* The Appends whose stream ended with an error other than EOF, that have not
\* returned yet.
ClientFailed(a) == pc[a] \in {"wait", "return"} /\ appender[a].reqErr # "nil"

\* What C6 says of the requests, the error and the response of an Append
\* whose client stream failed: the last request, the only one that asks for
\* an acknowledgement, proposes the Fragment committed then; the error
\* returned is that of the stream; and no response, so no Commit, is sent.
RollsBack(a) ==
    LET reqs == scattered[a]
        pl == plns[myPln[a]]
    IN  /\ Len(reqs) >= 1
        /\ Acknowledged(reqs) = {Len(reqs)}
        /\ ContentThenLast(reqs)
        /\ reqs[Len(reqs)] = ProposalRequest(spoolAt[a].released, TRUE)
        /\ ~appender[a].hasFragment
        /\ \A e \in {"nil", "client gone"} :
              ServeAppendErr(appender[a].reqErr, plnSendErr[a], PlnRecvErr(pl), e)
                 = appender[a].reqErr
        /\ ~ServeAppendResponds(appender[a].reqErr, plnSendErr[a], PlnRecvErr(pl))

\* C6 (as amended).  When the client stream fails with an error other than
\* EOF, the Append scatters a rollback proposal equal to the committed
\* Fragment, returns that error and no Commit, and the committed Fragment
\* after it is the Fragment as beginAppending left it, with the End the
\* Fragment had before the Append.
C6_RollbackOnClientError ==
    \A a \in Appends : ClientFailed(a) =>
        /\ RollsBack(a)
        /\ spoolAt[a].released = spoolAt[a].begun
        /\ spoolAt[a].released.End = spoolAt[a].before.End

\* An Append that sent content, the stream of which then failed: it has
\* rolled back, gathered, and is about to return.
C6_Witness ==
    \E a \in Appends :
        /\ ClientFailed(a)
        /\ pc[a] = "return"
        /\ Len(ContentOf(scattered[a])) > 0

\* C6 as stated: ... and the committed Fragment after the Append equals the
\* committed Fragment before it.
C6_AsStated ==
    \A a \in Appends : ClientFailed(a) =>
        /\ RollsBack(a)
        /\ spoolAt[a].released = spoolAt[a].before

\* The Appends that have gathered the refusal of their commit proposal by a
\* peer (FRAGMENT_MISMATCH), and have not returned yet.
Refused(a) ==
    /\ pc[a] = "return"
    /\ CleanEOF(a)
    /\ gathered[a] = {a}
    /\ \E q \in Peers : plns[myPln[a]].recvErrs[q] = "unexpected !OK response"

\* C7 as stated: when a peer refuses the commit proposal of an Append with
\* FRAGMENT_MISMATCH, the primary has sent, by the time the Append returns, a
\* rollback proposal equal to the Fragment before the Append, and the Append
\* returns an error.
C7_AsStated ==
    \A a \in Appends : Refused(a) =>
        /\ scattered[a][Len(scattered[a])] = ProposalRequest(spoolAt[a].begun, TRUE)
        /\ \A e \in {"nil", "client gone"} :
              ServeAppendErr(appender[a].reqErr, plnSendErr[a],
                             PlnRecvErr(plns[myPln[a]]), e) # "nil"

\* The first of errs that is not nil, or nil.
FirstNonNil(errs) ==
    IF \A k \in 1..Len(errs) : errs[k] = "nil" THEN "nil"
    ELSE errs[CHOOSE k \in 1..Len(errs) :
                 errs[k] # "nil" /\ \A l \in 1..(k - 1) : errs[l] = "nil"]

\* C8.  Whenever an Append served on a pipeline returns, the error it returns
\* is the first that is not nil of the client read error, the pipeline send
\* error and the pipeline receive error, in this order; and it has sent the
\* AppendResponse if and only if all three are nil.
C8_ErrorPrecedence ==
    [][\A a \in Appends :
          (pc[a] = "return" /\ pc'[a] = "done") =>
             LET errs == <<appender[a].reqErr, plnSendErr[a],
                           PlnRecvErr(plns[myPln[a]])>>
             IN  /\ FirstNonNil(errs) # "nil" => rpc'[a].err = FirstNonNil(errs)
                 /\ rpc'[a].resp.sent <=> FirstNonNil(errs) = "nil"]_vars

\* All three errors are there at once: an Append whose client stream failed
\* has returned the client's read error and no response, the send of its
\* rollback having failed on a pipeline that has a receive error too.
C8_Witness ==
    \E a \in Appends : \E p \in 1..Len(plns) :
        /\ pc[a] = "done"
        /\ rpc[a].err = "read error"
        /\ ~rpc[a].resp.sent
        /\ plns[p].sendClosed
        /\ PlnSendErr(plns[p]) = "send error"
        /\ PlnRecvErr(plns[p]) # "nil"

\* Every stream of pl has been read to its end, or to an error.
Drained(pl) == \A q \in Peers : pl.recvErrs[q] # "nil" \/ pl.pending[q] = <<>>

\* C9 with its last words as they stand: an Append a send of which failed
\* returns the send error.
C9_AsStated ==
    [][\A a \in Appends :
          (pc[a] = "return" /\ pc'[a] = "done" /\ plnSendErr[a] # "nil")
             => rpc'[a].err = plnSendErr[a]]_vars

\* C9.  A pipeline a send of which failed is, once the Append that saw the
\* failure has left its loop, closed for sending and not in the channel (nil
\* is); no Append scatters on a pipeline closed for sending, so that the next
\* Append builds its own; and the Append that saw the failure returns only
\* after its turn in the barrier chain has come and it has drained the
\* streams, and then returns an error and no response: the client's error
\* when the client's input had ended in one (the send that failed is then
\* that of the rollback), the send error otherwise.
C9_SendFailureClosesPipeline ==
    /\ \A p \in 1..Len(plns) :
          /\ (PlnSendErr(plns[p]) # "nil" /\ SendHolders(p) = {})
                => plns[p].sendClosed
          /\ plns[p].sendClosed => (SendHolders(p) = {} /\ pipelineCh # <<p>>)
    /\ \A a \in Appends :
          (pc[a] \in {"wait", "return"} /\ plnSendErr[a] # "nil")
             => plns[myPln[a]].sendClosed
    /\ \A a \in Appends :
          (pc[a] = "return" /\ plnSendErr[a] # "nil") =>
             /\ barrier[a].waitFor \in plns[myPln[a]].closedChs
             /\ Drained(plns[myPln[a]])
             /\ ~ServeAppendResponds(appender[a].reqErr, plnSendErr[a],
                                     PlnRecvErr(plns[myPln[a]]))
             /\ ServeAppendErr(appender[a].reqErr, plnSendErr[a],
                               PlnRecvErr(plns[myPln[a]]), "nil")
                   = IF appender[a].reqErr # "nil" THEN appender[a].reqErr
                     ELSE plnSendErr[a]

\* An Append has returned the send error of its pipeline, and a later Append
\* is served on a pipeline built after that one.
C9_Witness ==
    \E a, b \in Appends : \E p \in 1..Len(plns) :
        /\ pc[a] = "done"
        /\ rpc[a].err = "send error"
        /\ plns[p].sendClosed
        /\ pc[b] \in {"recv", "wait", "return"}
        /\ myPln[b] > p
        /\ ~plns[myPln[b]].sendClosed

\* C10.  An Append to which acquirePipeline returned a revision (a peer
\* answered WRONG_ROUTE with a Route of that revision) is not served on a
\* pipeline: it resolves again, with the revision after its Header's as the
\* minimum, and that resolve completes only when the KeySpace has observed
\* the revision.
C10_ReResolveAtRevision ==
    \A a \in Appends : rev[a] # 0 =>
        /\ pc[a] \in {"resolve", "acquire"}
        /\ myPln[a] = 0
        /\ pc[a] = "resolve" => rev[a] = hdr[a] + 1
        /\ pc[a] = "acquire" => (hdr[a] >= rev[a] /\ ksRevision >= rev[a])

\* An Append has succeeded on a pipeline built at a revision the KeySpace
\* reached only after a peer had named it.
C10_Witness ==
    \E a \in Appends : Succeeded(a) /\ rpc[a].resp.Header >= 2

\* C11.  As stated: every AppendResponse the broker sends, on success or with
\* a Status that is not OK, carries a Route, a Commit Fragment and a Header,
\* and so passes AppendResponse.Validate.  The responses of Service.Append
\* and of serveAppend set no Route, and the former no Commit either.
C11_AsStated ==
    \A a \in Appends : rpc[a].resp.sent =>
        /\ rpc[a].resp.hasRoute
        /\ rpc[a].resp.hasCommit
        /\ AppendResponseValidate(rpc[a].resp) = "nil"

\* The Fragment a replica computes itself from the content it has received:
\* it begins at the committed End, extends over the content accepted since,
\* and its Sum is the digest of the content of the Fragment up to there.
ReplicaComputed(r) ==
    [Begin |-> r.spool.Fragment.End,
     End |-> r.spool.Fragment.End + Len(r.spool.delta),
     Sum |-> sumOf(r.bytes \o r.spool.delta)]

Matches(proposal, r) ==
    /\ proposal.Begin = ReplicaComputed(r).Begin
    /\ proposal.End = ReplicaComputed(r).End
    /\ proposal.Sum = ReplicaComputed(r).Sum

\* A proposal that commits nothing and is accepted all the same: the
\* replica's committed Fragment (a rollback of the content received since),
\* or an empty Fragment at or past its End (a roll).
RollsBackOrForward(proposal, r) ==
    \/ proposal = r.spool.Fragment
    \/ ContentLength(proposal) = 0 /\ proposal.Begin >= r.spool.Fragment.End

\* C12.  On a replica a Content request never changes the index EndOffset.
\* The EndOffset changes only on a Proposal that matches the Fragment the
\* replica computed itself from the content received (same Begin, End and
\* Sum); such a proposal is committed (the Spool's End and, for new content,
\* the EndOffset become its End) and answered OK when it asks to be
\* acknowledged.  A proposal that neither matches nor is a rollback or a roll
\* changes nothing and is answered FRAGMENT_MISMATCH.
C12_CommitOnMatchingProposal ==
    [][LET req == replica'.req IN
       /\ req.kind = "content" => replica'.EndOffset = replica.EndOffset
       /\ replica'.EndOffset # replica.EndOffset =>
             /\ req.kind = "proposal"
             /\ Matches(req.Proposal, replica)
             /\ replica'.EndOffset = req.Proposal.End
       /\ (req.kind = "proposal" /\ Matches(req.Proposal, replica)) =>
             /\ replica'.spool.Fragment.End = req.Proposal.End
             /\ replica'.spool.delta = <<>>
             /\ ContentLength(req.Proposal) > 0 =>
                    replica'.EndOffset = req.Proposal.End
             /\ replica'.resp = IF req.Acknowledge THEN "OK" ELSE "none"
       /\ (/\ req.kind = "proposal"
           /\ ~Matches(req.Proposal, replica)
           /\ ~RollsBackOrForward(req.Proposal, replica)) =>
             /\ replica'.spool = replica.spool
             /\ replica'.EndOffset = replica.EndOffset
             /\ replica'.resp = "FRAGMENT_MISMATCH"
      ]_replica

\* A replica has committed a second run of content: its index ends where the
\* acknowledged proposal does, past what it had committed before.
C12_Witness ==
    /\ replica.req.kind = "proposal"
    /\ replica.req.Acknowledge
    /\ replica.resp = "OK"
    /\ replica.EndOffset = replica.req.Proposal.End
    /\ replica.req.Proposal.Begin > 0
    /\ replica.spool.Fragment.Begin = 0
    /\ Len(replica.bytes) = replica.EndOffset

\* C12 as stated: every proposal that does not match the Fragment the replica
\* computed from the content received is answered FRAGMENT_MISMATCH.  A
\* rollback proposal, the committed Fragment, is answered OK.
C12_AsStated ==
    [][LET req == replica'.req IN
       (req.kind = "proposal" /\ ~Matches(req.Proposal, replica)) =>
            /\ replica'.EndOffset = replica.EndOffset
            /\ replica'.resp = "FRAGMENT_MISMATCH"
      ]_replica

\* The batches a KeySpace may be handed: the WatchResponses of any run of
\* the store's transactions, from the store's cluster or from another.
KsBatches ==
    {[from |-> from, to |-> to, cluster |-> cluster,
      responses |-> WatchResponses(etcd, from, to, cluster)] :
        from \in 1..Len(etcd), to \in 1..Len(etcd),
        cluster \in {EtcdCluster, OtherCluster}}

\* C13.  The Header of a KeySpace changes only to a greater Revision, and its
\* ClusterId, once set, never changes: a batch of another ClusterId is
\* rejected with a ClusterID mismatch, a batch of the same cluster whose
\* first Revision is not greater than the Header's with a Revision mismatch,
\* and a rejected batch changes nothing; an accepted batch leaves the Header
\* at a greater Revision.
C13_HeaderMonotonic ==
    \A b \in KsBatches :
        LET got == apply(ks, b.responses)
            set == ks.Header.ClusterId # 0
        IN  b.from <= b.to =>
            /\ (set /\ b.cluster # ks.Header.ClusterId) =>
                  (got.err = "etcd ClusterID mismatch" /\ got.ks = ks)
            /\ (~(set /\ b.cluster # ks.Header.ClusterId)
                    /\ b.from <= ks.Header.Revision) =>
                  (got.err = "etcd Revision mismatch" /\ got.ks = ks)
            /\ got.err = "nil" =>
                  /\ got.ks.Header.Revision > ks.Header.Revision
                  /\ set => got.ks.Header.ClusterId = ks.Header.ClusterId
            /\ got.ks.Header.Revision >= ks.Header.Revision

\* A KeySpace that had accepted batches has rejected one for its Revision.
C13_Witness ==
    /\ ksApplied.op = "apply"
    /\ ksApplied.err = "etcd Revision mismatch"
    /\ ks.Header.Revision >= 2
    /\ ks.Header.ClusterId = EtcdCluster
    /\ ks.KeyValues # <<>>

\* C14.  A batch applied a second time leaves the KeySpace, KeyValues and
\* Header, as the first apply left it.
C14_ApplyIdempotent ==
    /\ \A b \in KsBatches :
          LET once == apply(ks, b.responses) IN
          apply(once.ks, b.responses).ks = once.ks
    /\ ksApplied.again => ~ksApplied.changed

\* A KeySpace has been handed again the batch it had just accepted, a batch
\* of several responses that left it key/values.
C14_Witness ==
    /\ ksApplied.again
    /\ ksApplied.err # "nil"
    /\ ks.KeyValues # <<>>
    /\ ks.Header.Revision >= 2

\* The last event of a key in a batch, if any.
EventsOf(responses, key) ==
    SelectSeq(BatchEvents(responses), LAMBDA ev : ev.Key = key)

Touches(responses, key) == EventsOf(responses, key) # <<>>

LastEventOf(responses, key) ==
    EventsOf(responses, key)[Len(EventsOf(responses, key))]

\* The key/value a KeySpace holds for a key, if any.
Held(k, key) == {kv \in {k.KeyValues[i] : i \in 1..Len(k.KeyValues)} : kv.Key = key}

Undecodable(ev) == ev.Type = "PUT" /\ testDecoder(ev.Value).err # "nil"

\* The batches that pass the Header checks of a KeySpace.
Accepted(k, b) ==
    /\ b.from <= b.to
    /\ b.from > k.Header.Revision
    /\ k.Header.ClusterId \in {0, b.cluster}

\* C15.  A value that does not decode fails neither Load nor apply.  A batch
\* that passes the Header checks is applied without error; a key whose last
\* event in it is a put of an undecodable value is absent afterwards,
\* whatever was held for it; every other key the batch touches ends as its
\* own last event says; and a key put last with a decodable value is present
\* with that value, whether or not it was evicted before.  Load skips the
\* keys whose values do not decode and loads the others.
C15_DecodeFailureEvicts ==
    /\ \A b \in KsBatches : Accepted(ks, b) =>
          LET got == apply(ks, b.responses) IN
          /\ got.err = "nil"
          /\ \A key \in KsKeys : Touches(b.responses, key) =>
                LET last == LastEventOf(b.responses, key) IN
                /\ Undecodable(last) => Held(got.ks, key) = {}
                /\ last.Type = "DELETE" => Held(got.ks, key) = {}
                /\ (last.Type = "PUT" /\ ~Undecodable(last)) =>
                      \E kv \in Held(got.ks, key) :
                          kv.Decoded = testDecoder(last.Value).Decoded
    /\ \A r \in 0..Len(etcd) :
          LET got == Load(NewKeySpace, etcd, r, EtcdCluster) IN
          /\ got.err = "nil"
          /\ \A key \in KsKeys :
                LET kv == EtcdAt(etcd, r)[key] IN
                IF kv.present /\ testDecoder(kv.Value).err = "nil"
                THEN \E held \in Held(got.ks, key) :
                         held.Decoded = testDecoder(kv.Value).Decoded
                ELSE Held(got.ks, key) = {}

\* The transactions of the store from..to that put an undecodable value
\* under key.
PutsUndecodable(key, r) ==
    \E i \in 1..Len(etcd[r]) :
        /\ etcd[r][i].Key = key
        /\ etcd[r][i].Type = "PUT"
        /\ testDecoder(etcd[r][i].Value).err # "nil"

\* A KeySpace that held a value for the second key has applied, without
\* error, a response that put an undecodable value under it and deleted the
\* first key: it holds neither.
C15_Witness ==
    /\ ksApplied.op = "apply"
    /\ ksApplied.err = "nil"
    /\ ks.Header.Revision = 2
    /\ ksApplied.from = 2
    /\ Len(etcd) >= 2
    /\ etcd[1] = <<OpPut(2, <<49>>), OpPut(1, <<49, 48>>)>>
    /\ PutsUndecodable(2, 2)
    /\ ks.KeyValues = <<>>

\* C16.  One apply of several responses that mutate a key several times
\* leaves for each key the effect of its last event in revision order: the
\* value of a last put, absence after a last delete; the keys the batch does
\* not touch stay as they were, and the delete of a key not held changes
\* nothing and is no error.  KeyValues stays sorted on Key.
C16_LastEventWins ==
    \A b \in KsBatches : Accepted(ks, b) =>
        LET got == apply(ks, b.responses) IN
        /\ got.err = "nil"
        /\ \A i \in 1..Len(got.ks.KeyValues) - 1 :
              got.ks.KeyValues[i].Key < got.ks.KeyValues[i + 1].Key
        /\ \A key \in KsKeys :
              IF ~Touches(b.responses, key)
              THEN Held(got.ks, key) = Held(ks, key)
              ELSE LET last == LastEventOf(b.responses, key)
                       dec == testDecoder(last.Value)
                   IN  IF last.Type = "DELETE" \/ dec.err # "nil"
                       THEN Held(got.ks, key) = {}
                       ELSE /\ Cardinality(Held(got.ks, key)) = 1
                            /\ \A kv \in Held(got.ks, key) :
                                  /\ kv.Decoded = dec.Decoded
                                  /\ kv.ModRevision = last.ModRevision

\* A KeySpace has applied at once the responses of two transactions: the
\* first key was put and put again in a response that named the second key
\* before it; it holds the second value of the first key and, before it in
\* KeyValues, no other key.
C16_Witness ==
    /\ ksApplied.op = "apply"
    /\ ksApplied.err = "nil"
    /\ ksApplied.from = 1
    /\ ks.Header.Revision = 2
    /\ Len(etcd) = 2
    /\ etcd[1] = <<OpPut(1, <<49>>)>>
    /\ etcd[2] = <<OpPut(2, <<49>>), OpPut(1, <<49, 48>>)>>
    /\ Len(ks.KeyValues) = 2
    /\ ks.KeyValues[1].Key = 1
    /\ ks.KeyValues[1].Decoded = 10
    /\ ks.KeyValues[1].CreateRevision = 1
    /\ ks.KeyValues[2].Decoded = 1

\* C17.  KeySpace.Watch returns only after its context is cancelled, it then
\* returns context.Canceled, and its signal channel is closed when it has
\* returned and not before.  While it runs, every batch it applies takes the
\* KeySpace to a later Revision of the store, and the signal after an apply
\* reaches the receiver that waits on the channel.
C17_WatchUntilCancelled ==
    /\ [](/\ watch.closed <=> watch.pc = "returned"
          /\ watch.pc = "returned" =>
                (watch.err = "context canceled" /\ watch.ctxDone)
          /\ watch.pc # "returned" => watch.err = "nil")
    /\ [][(watch.pc = "watching" /\ watch'.pc = "signal") =>
              /\ ks'.Header.Revision > ks.Header.Revision
              /\ ks'.Header.Revision <= Len(etcd)
              /\ ks'.KeyValues = Load(NewKeySpace, etcd, ks'.Header.Revision,
                                      EtcdCluster).ks.KeyValues
         ]_<<watch, ks>>
    /\ [][/\ (watch.pc = "signal" /\ watch'.pc # "signal" /\ watch.waiting) =>
                (~watch'.waiting /\ watch'.delivered = watch.delivered + 1)
          /\ watch'.delivered # watch.delivered =>
                (watch.pc = "signal" /\ watch.waiting)
          /\ watch.pc = "returned" =>
                /\ watch'.pc = "returned" /\ watch'.err = watch.err
                /\ watch'.closed /\ watch'.delivered = watch.delivered
                /\ ks' = ks
         ]_<<watch, ks>>

\* Watch has applied the store's two transactions, each followed by a signal
\* that reached the receiver, and has then returned context.Canceled.
C17_Witness ==
    /\ watch.pc = "returned"
    /\ watch.err = "context canceled"
    /\ watch.closed
    /\ watch.delivered = 2
    /\ ks.Header.Revision = 2
    /\ ksApplied.op = "Load"

\* The keys of the Members of the KeySpace at Revision r, and those of them
\* whose allocState says isLeader.
MemberKeys(r) ==
    LET keySpace == AllocKeySpace(r)
    IN  {keySpace.Members[i].Key : i \in 1..Len(keySpace.Members)}
Leaders(r) ==
    LET keySpace == AllocKeySpace(r)
    IN  {keySpace.Members[i].Key :
            i \in {j \in 1..Len(keySpace.Members) :
                      isLeader(NewState(keySpace, keySpace.Members[j].Key))}}

\* C18.  In every state of the KeySpace that holds a Member, the allocState
\* of exactly one Member says isLeader, and no Member has a smaller
\* CreateRevision than that one, nor a smaller key with the same
\* CreateRevision; so it is, too, in the KeySpace that has applied the
\* deletion of the leader's key and still holds a Member.
C18_ExactlyOneLeader ==
    \A r \in 1..Len(allocEtcd) :
        \E keys \in {MemberKeys(r)}, leaders \in {Leaders(r)} :
        keys # {} =>
            /\ Cardinality(leaders) = 1
            /\ \A l \in leaders, k \in keys :
                   LET created(key) == allocEtcd[r].members[key].CreateRevision
                   IN  \/ created(l) < created(k)
                       \/ created(l) = created(k) /\ l <= k

\* The key of the leader, the Member of the smallest CreateRevision, was
\* deleted; the KeySpace of a serving Allocator has applied the deletion,
\* and of the Members that remain, which share their CreateRevision, the one
\* of the smallest key is the leader.
C18_Witness ==
    \E r \in 2..Len(allocEtcd), m \in AllocMembers :
        /\ serve[m].ksRev >= r
        /\ \E l \in Leaders(r - 1) :
               /\ l \notin MemberKeys(r)
               /\ MemberKeys(r) = MemberKeys(r - 1) \ {l}
        /\ Cardinality(MemberKeys(r)) >= 2
        /\ \A j, k \in MemberKeys(r) :
               allocEtcd[r].members[j].CreateRevision
                   = allocEtcd[r].members[k].CreateRevision
        /\ Cardinality(Leaders(r)) = 1
        /\ \A l \in Leaders(r), k \in MemberKeys(r) : l <= k

\* Serve of Member m has returned.
Stopped(m) == serve[m].w = "returned"

\* The allocState of Member m in the KeySpace as its goroutine left the loop.
StateAtBreak(m) == NewState(AllocKeySpace(serve[m].brokeAt), m)

\* (a) The goroutine left because of shouldExit: the local Member had R = 0
\* and no Assignment, the context of Watch was cancelled, Serve returned nil.
StoppedToExit(m) ==
    /\ serve[m].broke = "shouldExit"
    /\ StateAtBreak(m).err = "nil"
    /\ LocalMember(StateAtBreak(m)).R = 0
    /\ m \notin MembersOf(StateAtBreak(m).assignments)
    /\ serve[m].ctx # "live"
    /\ serve[m].err = "nil"

\* (b) The local Member key was absent from the KeySpace: Serve returned
\* that error.
StoppedForMissingKey(m) ==
    /\ serve[m].broke = "newAllocState"
    /\ m \notin MemberKeys(serve[m].brokeAt)
    /\ serve[m].err = "member key not found"

\* (c) Load or Watch failed, and Serve returned the error.
StoppedOnError(m) ==
    serve[m].err \in {"load error", "watch error"}

\* (d) The caller cancelled the context of Serve, Watch returned
\* context.Canceled and Serve returned nil.
StoppedByCaller(m) ==
    /\ serve[m].ctx = "cancelled"
    /\ serve[m].err = "nil"

\* C19.  Serve stops only because (a) the local Member has R = 0 and no
\* Assignment (shouldExit): the watch is cancelled and Serve returns nil; or
\* (b) the local Member key is absent from the KeySpace: Serve returns that
\* error; or (c) Load or Watch fails: Serve returns the error; or (d) the
\* caller cancels the context of Serve: Serve returns nil.  The goroutine
\* never leaves its loop for shouldExit while the local Member has R > 0 or
\* an Assignment.
C19_ServeStops ==
    \A m \in AllocMembers :
        /\ Stopped(m) =>
               \/ StoppedToExit(m)
               \/ StoppedForMissingKey(m)
               \/ StoppedOnError(m)
               \/ StoppedByCaller(m)
        /\ serve[m].broke = "shouldExit" =>
               /\ LocalMember(StateAtBreak(m)).R = 0
               /\ m \notin MembersOf(StateAtBreak(m).assignments)

\* Serve of a Member returned nil for shouldExit: the Member had held an
\* Assignment, which was removed after its R became 0.
C19_Witness ==
    \E m \in AllocMembers :
        /\ Stopped(m)
        /\ StoppedToExit(m)
        /\ ~StoppedByCaller(m)
        /\ \E r \in 1..serve[m].brokeAt : m \in MembersOf(allocEtcd[r].asn)

\* C19 as stated: Serve stops for (a), (b) or (c) only.
C19_AsStated ==
    \A m \in AllocMembers :
        Stopped(m) =>
            \/ StoppedToExit(m)
            \/ StoppedForMissingKey(m)
            \/ StoppedOnError(m)

\* Member m drains while a leader runs: in the store its key has R = 0 and
\* is the leader's, as many other Members as an Item takes have the R to
\* take every Item, and its Serve was called and has met no error and no
\* cancellation by its caller.
Drains(m) ==
    LET now == allocEtcd[Len(allocEtcd)]
    IN  /\ now.members[m].CreateRevision # 0
        /\ now.members[m].R = 0
        /\ Cardinality({o \in AllocMembers \ {m} :
                           /\ now.members[o].CreateRevision # 0
                           /\ now.members[o].R >= Cardinality(AllocItemIDs)}) >= ItemR
        /\ m \in Leaders(Len(allocEtcd))
        /\ serve[m].w # "idle"
        /\ serve[m].err = "nil"
        /\ serve[m].ctx # "cancelled"

\* No Assignment to Member m remains, its goroutine has left the loop for
\* shouldExit and its Serve has returned.
Exited(m) ==
    /\ m \notin MembersOf(allocEtcd[Len(allocEtcd)].asn)
    /\ serve[m].broke = "shouldExit"
    /\ Stopped(m)

\* C20.  If the R of a Member is set to 0 while a leader runs, and stays so,
\* then eventually every Assignment to the Member is removed, its Serve loop
\* finds shouldExit and Serve returns (under fair scheduling of the watch,
\* the leader loop and the store).
C20_AsStated ==
    \A m \in AllocMembers : <>[]Drains(m) => <>Exited(m)

\* The transactions a batchedTxn has issued, by position, and whether a
\* transaction asserts the fixed compares.
Issued == 1..Len(btxn.issued)
Fenced(t) == \E i \in 1..Len(t.cmps) : t.cmps[i].cp = 0

\* C21.  Every transaction a batchedTxn issues, whether Checkpoint flushes it
\* or Commit issues it, asserts the fixed compares (the ModRevision of the
\* local Member key is unchanged).  It does not hold of the transaction that
\* Commit issues with nothing queued: the queue is opened with the fixed
\* compares by Checkpoint only.
C21_AsStated ==
    \A i \in Issued : Fenced(btxn.issued[i])

\* The runs of checkpoint k among runs.
RunsOf(runs, k) == SelectSeq(runs, LAMBDA r : r.cp = k)

\* C22.  Whatever the calls of If, Then, Checkpoint and Commit, a
\* transaction issued with a compare or an op of a checkpoint in it has all
\* the compares and all the ops added for that checkpoint, and nothing of a
\* checkpoint that Checkpoint has not closed: no checkpoint is split over
\* two transactions, and no ops are issued without their compares.
C22_CheckpointAtomic ==
    \A i \in Issued :
        LET t == btxn.issued[i]
        IN  /\ \A j \in 1..Len(t.cmps) : t.cmps[j].cp <= Len(btxn.added)
            /\ \A j \in 1..Len(t.ops) : t.ops[j].cp <= Len(btxn.added)
            /\ \A k \in 1..Len(btxn.added) :
                   (RunsOf(t.cmps, k) # <<>> \/ RunsOf(t.ops, k) # <<>>)
                   => /\ RunsOf(t.cmps, k) = btxn.added[k].cmps
                      /\ RunsOf(t.ops, k) = btxn.added[k].ops

\* The second Checkpoint has flushed the first checkpoint, which had
\* compares and ops, in a transaction of its own.
C22_Witness ==
    /\ Len(btxn.added) = 2
    /\ Len(btxn.issued) = 1
    /\ btxn.added[1].cmps # <<>> /\ btxn.added[1].ops # <<>>
    /\ btxn.added[2].ops # <<>>
    /\ RunsOf(btxn.issued[1].ops, 1) = btxn.added[1].ops
    /\ RunsOf(btxn.b.ops, 2) = btxn.added[2].ops

\* The checkpoints with a compare or an op in transaction t.
CheckpointsOf(t) ==
    ({t.cmps[j].cp : j \in 1..Len(t.cmps)}
         \cup {t.ops[j].cp : j \in 1..Len(t.ops)}) \ {0}

\* Transaction t is within the cap.
WithinCap(t) == Count(t.cmps) <= maxTxnOps /\ Count(t.ops) <= maxTxnOps

\* The queue of b as Checkpoint finds it, the fixed compares opening it,
\* would with the checkpoint being built exceed the cap.
WouldExceed(b) ==
    \/ Count(IF b.cmps = <<>> THEN b.fixedCmps ELSE b.cmps)
           + Count(b.nextCmps) > maxTxnOps
    \/ Count(b.ops) + Count(b.nextOps) > maxTxnOps

\* C23.  A transaction issued by a batchedTxn holds more than maxTxnOps
\* compares, or ops, only if it holds a single checkpoint; and Checkpoint
\* issues a transaction exactly when the queue with the checkpoint being
\* built would exceed maxTxnOps compares or ops: it then flushes the queue
\* as it was, and otherwise queues the checkpoint behind the others.
C23_TransactionsCapped ==
    /\ [](\A i \in Issued :
              \/ WithinCap(btxn.issued[i])
              \/ Cardinality(CheckpointsOf(btxn.issued[i])) = 1)
    /\ [][btxn'.cp = btxn.cp + 1 =>
              /\ Len(btxn'.issued) > Len(btxn.issued) <=> WouldExceed(btxn.b)
              /\ WouldExceed(btxn.b) =>
                     /\ btxn'.issued[Len(btxn'.issued)].ops = btxn.b.ops
                     /\ CheckpointsOf(btxn'.issued[Len(btxn'.issued)])
                            \subseteq 1..(btxn.cp - 1)
              /\ (~WouldExceed(btxn.b) /\ btxn.b.cmps # <<>>) =>
                     /\ btxn'.b.cmps = btxn.b.cmps \o btxn.b.nextCmps
                     /\ btxn'.b.ops = btxn.b.ops \o btxn.b.nextOps]_btxn

\* A checkpoint of maxTxnOps ops was queued; the next, of 1 op, made
\* Checkpoint flush the queue in a transaction of maxTxnOps ops, and is
\* queued behind the fixed compares.
C23_Witness ==
    /\ Len(btxn.issued) = 1
    /\ Count(btxn.issued[1].ops) = maxTxnOps
    /\ CheckpointsOf(btxn.issued[1]) = {1}
    /\ btxn.issued[1].outcome = "ok"
    /\ btxn.b.ops = <<[cp |-> 2, n |-> 1]>>
    /\ btxn.b.cmps = FixedCmps

\* C23 as stated: no transaction issued holds more than maxTxnOps compares
\* or more than maxTxnOps ops.
C23_AsStated ==
    \A i \in Issued : WithinCap(btxn.issued[i])

\* The goroutine of m, at the head of its loop, would act as the leader.
Leads(m) ==
    LET as == NewState(AllocKeySpace(serve[m].ksRev), m)
    IN  /\ as.err = "nil"
        /\ ~shouldExit(as)
        /\ isLeader(as)
        /\ serve[m].txnResponse = 0 \/ serve[m].ksRev >= serve[m].txnResponse

\* The transaction a round of m gives to the store now cannot succeed: the
\* context of the call to the store is cancelled, or the transaction
\* carries the fixed compare (the KeySpace of m holds an Item or an
\* Assignment, so that converge makes a Checkpoint) and the Member key of m
\* was modified after the Revision the KeySpace of m holds.
CommitFails(m) ==
    \/ serve[m].ctx # "live"
    \/ /\ \/ allocEtcd[serve[m].ksRev].items # {}
          \/ allocEtcd[serve[m].ksRev].asn # {}
       /\ allocEtcd[Len(allocEtcd)].members[m].ModRevision
              # allocEtcd[serve[m].ksRev].members[m].ModRevision

\* The Assignments of the store after the ops of a transaction took effect.
Applying(asn, txn) ==
    LET keys(op) == {txn.ops[i].key :
                        i \in {j \in 1..Len(txn.ops) : txn.ops[j].op = op}}
    IN  (asn \cup keys("put")) \ keys("delete")

\* The revisions the store gains from the transactions issued, in turn: one
\* of each that succeeded with ops, none of any other.
RECURSIVE Revisions(_, _)
Revisions(last, issued) ==
    IF issued = <<>> THEN <<>>
    ELSE IF Head(issued).outcome = "ok" /\ Head(issued).ops # <<>>
    THEN LET next == [last EXCEPT !.asn = Applying(@, Head(issued))]
         IN  <<next>> \o Revisions(next, Tail(issued))
    ELSE Revisions(last, Tail(issued))

\* This step begins a round of the goroutine of m as the leader, and this
\* step gives a transaction of a round of the leader m to the store: the
\* first of a round that begins, or the next of a round that awaited one.
RoundOfLeader(m) ==
    /\ serve[m].g = "loop"
    /\ serve'[m].g # "loop"
    /\ Leads(m)
TransactionOfLeader(m) ==
    \/ RoundOfLeader(m)
    \/ serve[m].g = "txn" /\ serve'[m].g # "txn"
    \/ serve[m].g = "txn" /\ serve'[m].issued # serve[m].issued

\* C24: a round of the leader issues its transactions one after the other,
\* each flushed by a Checkpoint of converge or issued by Commit, and a
\* transaction that does not succeed (its compares fail or the call to the
\* store fails, whatever the store and the context have become since the
\* round began) is the last of its round: the call that issued it returns
\* an error, which is the error of the round, and none of its ops take
\* effect; the round is not counted as completed, and the goroutine goes to
\* await the signal.  A transaction that succeeds adds its ops to the store
\* as one revision, and the round goes on: to its next transaction, or, after
\* that of Commit, to its end without error.  The goroutine begins its next
\* round only upon a signal that follows an apply of the KeySpace.
C24_FailedRoundAwaitsSignal ==
    /\ [][\A m \in AllocMembers :
             TransactionOfLeader(m)
             => LET before == IF serve[m].g = "txn" THEN serve[m].issued
                              ELSE <<>>
                    issued == serve'[m].issued
                    last == issued[Len(issued)]
                IN  /\ Len(issued) = Len(before) + 1
                    /\ \A i \in 1..Len(before) :
                           /\ issued[i] = before[i]
                           /\ issued[i].outcome = "ok"
                           /\ issued[i].by = "Checkpoint"
                    /\ CommitFails(m) => last.outcome # "ok"
                    /\ allocEtcd'
                           = allocEtcd \o Revisions(allocEtcd[Len(allocEtcd)],
                                                    <<last>>)
                    /\ last.outcome # "ok"
                       => /\ allocEtcd' = allocEtcd
                          /\ serve'[m].g = "unlocked"
                          /\ serve'[m].round = serve[m].round
                          /\ serve'[m].roundErr
                                = IF last.outcome = "checks"
                                  THEN "transaction checks did not succeed"
                                  ELSE IF serve[m].ctx = "live"
                                  THEN "store error" ELSE "context canceled"
                    /\ (last.outcome = "ok" /\ last.by = "Checkpoint")
                       => /\ serve'[m].g = "txn"
                          /\ serve'[m].round = serve[m].round
                    /\ (last.outcome = "ok" /\ last.by = "Commit")
                       => /\ serve'[m].g = "unlocked"
                          /\ serve'[m].roundErr = "nil"
                          /\ serve'[m].round = serve[m].round + 1]_allVars
    /\ [][\A m \in AllocMembers :
             /\ (serve[m].g \in {"unlocked", "waiting"} /\ serve'[m].g = "loop")
                => /\ serve[m].g = "waiting"
                   /\ serve'[m].ksRev > serve[m].ksRev
             /\ serve[m].g = "txn" => serve'[m].g \in {"txn", "unlocked"}
          ]_allVars

\* A Checkpoint of the leader flushed the creates of an Item and the store
\* took them; before the round came to Commit, the Member key of the leader
\* was modified, and the transaction of Commit failed its fixed compare: the
\* creates of the second Item were not made and no round was completed.  The
\* leader has been signalled and is about to retry with the KeySpace up to
\* date.
C24_Witness ==
    \E m \in AllocMembers :
        /\ serve[m].roundErr = "transaction checks did not succeed"
        /\ Len(serve[m].issued) = 2
        /\ serve[m].issued[1].by = "Checkpoint"
        /\ serve[m].issued[1].outcome = "ok"
        /\ \E i \in 1..Len(serve[m].issued[1].ops) :
               serve[m].issued[1].ops[i].op = "put"
        /\ serve[m].issued[2].by = "Commit"
        /\ serve[m].issued[2].outcome = "checks"
        /\ \E i \in 1..Len(serve[m].issued[2].ops) :
               /\ serve[m].issued[2].ops[i].op = "put"
               /\ serve[m].issued[2].ops[i].key
                      \notin allocEtcd[Len(allocEtcd)].asn
        /\ serve[m].round = 0
        /\ serve[m].g = "loop"
        /\ serve[m].ksRev = Len(allocEtcd)
        /\ serve[m].ksRev > serve[m].builtAt
        /\ Leads(m)
        /\ ~CommitFails(m)

\* C25: a round of the leader runs the solver if and only if the
\* networkHash of its state differs from that of the state it last solved
\* for, and otherwise keeps the desired Assignments it had; so the desired
\* Assignments it converges towards were extracted from a state of the
\* networkHash of the current state.
C25_SolvesWhenNetworkChanges ==
    [][\A m \in AllocMembers :
          (serve[m].g = "loop" /\ serve'[m].g # "loop" /\ Leads(m))
          => LET as == NewState(AllocKeySpace(serve[m].ksRev), m)
             IN  /\ serve'[m].solved <=> as.networkHash # serve[m].solvedFor
                 /\ serve'[m].solved => serve'[m].desired \in extractDesired(as)
                 /\ ~serve'[m].solved => serve'[m].desired = serve[m].desired
                 /\ serve'[m].solvedFor = as.networkHash]_allVars

\* A leader has solved for a network other than that of the fixture, and has
\* gone through a later round without solving again.
C25_Witness ==
    \E m \in AllocMembers :
        /\ serve[m].g = "unlocked"
        /\ ~serve[m].solved
        /\ serve[m].desired # {}
        /\ serve[m].round >= 2
        /\ serve[m].solvedFor
               # NewState(AllocKeySpace(Len(AllocFixture)), m).networkHash

\* The Item IDs of the Items of the pass, and the Assignments of an Item ID.
ItemsOfPass == {conv.as.items[l].ID : l \in 1..Len(conv.as.items)}
AssignmentsOfItem(id) ==
    SelectSeq(conv.as.assignments, LAMBDA kv : kv.ItemID = id)

\* The transactions of the pass that succeeded, and after them the queue it
\* left: the checkpoints to commit after a pass without error, and those of
\* the transaction that did not succeed after a pass that a flush ended.
Batches ==
    [k \in 1..Len(conv.txn.issued) |->
        [cmps |-> conv.txn.issued[k].cmps, ops |-> conv.txn.issued[k].ops,
         ok |-> conv.txn.issued[k].outcome = "ok"]]
    \o <<[cmps |-> conv.txn.b.cmps, ops |-> conv.txn.b.ops, ok |-> TRUE]>>

\* The ops of the pass that delete the Assignment kv, as <<batch, index>>.
DeletesOf(kv) ==
    {at \in UNION {{<<k, i>> : i \in 1..Len(Batches[k].ops)} :
                      k \in {j \in 1..Len(Batches) : Batches[j].ok}} :
        /\ Batches[at[1]].ops[at[2]].op = "delete"
        /\ Batches[at[1]].ops[at[2]].key = kv.Key}

\* Batch k holds checkpoint cp, and it is the removal of the Assignments of
\* the absent Item id: it verifies that the Item has no CreateRevision and
\* that each Assignment is unchanged, and deletes each.
RemovesItem(k, cp, id) ==
    LET asn == AssignmentsOfItem(id)
    IN  /\ Batches[k].ok
        /\ SelectSeq(Batches[k].cmps, LAMBDA c : c.cp = cp)
               = <<ItemIsAbsent(id, cp)>>
                 \o [i \in 1..Len(asn) |-> modRevisionUnchanged(asn[i], cp)]
        /\ SelectSeq(Batches[k].ops, LAMBDA o : o.cp = cp)
               = [i \in 1..Len(asn) |-> DeleteAssignment(asn[i], cp)]

\* The Item IDs the walk of the pass comes by, each with one Checkpoint: those
\* of the Items and those of the Assignments without an Item.
WalkIDs ==
    ItemsOfPass \cup {id \in ItemIDs : AssignmentsOfItem(id) # <<>>}

\* The Checkpoints of the pass that returned nil: all it called, but the last
\* one if the pass ended with its error.
CheckpointsMade ==
    IF conv.txn.err = "nil" THEN conv.txn.cp - 1 ELSE conv.txn.cp - 2

\* The Item IDs whose Checkpoint returned nil: all of the walk after a pass
\* without error, and those before the Checkpoint that failed otherwise.
PassedIDs ==
    {id \in WalkIDs : Cardinality({j \in WalkIDs : j < id}) < CheckpointsMade}

\* What a pass does of the Assignments that have no Item, where ids are the
\* Item IDs it has dealt with: each of their Assignments gets one delete op,
\* in one checkpoint with its compares, and no other Assignment gets one.
DeadAreRemoved(ids) ==
    /\ \A i \in 1..Len(conv.as.assignments) :
          Cardinality(DeletesOf(conv.as.assignments[i]))
              = IF /\ conv.as.assignments[i].ItemID \notin ItemsOfPass
                   /\ conv.as.assignments[i].ItemID \in ids
                THEN 1 ELSE 0
    /\ \A id \in ids \ ItemsOfPass :
          Cardinality({at \in (1..Len(Batches)) \X (1..conv.txn.cp) :
                          RemovesItem(at[1], at[2], id)}) = 1

\* C26: in a converge pass, every Assignment whose ItemID is that of no Item
\* gets exactly one delete op, unless a Checkpoint of the pass fails: then
\* the Assignments of the missing Items the walk had dealt with keep their one
\* delete op, in a transaction that succeeded or in the one that did not, and
\* those of the checkpoint that failed and of the later missing Items get
\* none.  No Assignment of an Item gets a delete op from the removal of dead
\* Assignments; the deletes of the Assignments of one missing Item are one
\* checkpoint, which also asserts that the CreateRevision of the Item key is
\* 0 and that the ModRevision of each Assignment deleted is unchanged.
C26_DeadAssignmentsRemoved ==
    conv.pc = "returned" =>
        /\ DeadAreRemoved(PassedIDs)
        /\ conv.txn.err = "nil" => PassedIDs = WalkIDs
        /\ conv.txn.err # "nil" => PassedIDs # WalkIDs

\* A pass over two missing Items on either side of an Item: its first flush
\* succeeded, with the deletes of the first missing Item, and its second did
\* not, which ended the pass before the Assignments of the last.
C26_Witness ==
    /\ conv.pc = "returned"
    /\ conv.txn.err # "nil"
    /\ Len(conv.txn.issued) = 2
    /\ conv.txn.issued[1].outcome = "ok"
    /\ ItemsOfPass = {2}
    /\ \A id \in ItemIDs : Len(AssignmentsOfItem(id)) = MaxSlots
    /\ PassedIDs = {1, 2}

\* C26 as stated: of every converge pass, one that a failed flush ended too.
C26_AsStated ==
    conv.pc = "returned" => DeadAreRemoved(WalkIDs)

\* The allocState the goroutine of m builds at the head of its round.
StateOf(m) == NewState(AllocKeySpace(serve[m].ksRev), m)

\* The Members of an allocState that take Assignments, and those of its
\* Assignments a Member holds.
MembersUp(as) ==
    {as.members[i].Key : i \in {j \in 1..Len(as.members) : as.members[j].R > 0}}

\* This step ends a round of the leader m that commits with nothing to
\* change: no transaction of the round had an op.
Quiescent(m) ==
    /\ TransactionOfLeader(m)
    /\ serve'[m].g = "unlocked"
    /\ serve'[m].roundErr = "nil"
    /\ \A i \in 1..Len(serve'[m].issued) : serve'[m].issued[i].ops = <<>>

\* Of the Assignments of an allocState, those to the Member of a key that
\* count against its R when desired are the desired Assignments: all but
\* those outside the desired ones that stay because their Item has no more
\* than its R Assignments.
Counted(as, desired, key) ==
    {p \in AssignedTo(as.assignments, key) :
        \/ p \in desired
        \/ Cardinality(AssignmentsOf(as.assignments, p[1])) > ItemR}

AssignmentsOfMember(as, key) == Cardinality(AssignedTo(as.assignments, key))

RouteZones(item) ==
    {flow.members[m].zone : m \in extractItemFlow(flow.desired, item)}

\* C29: when the Members span at least 2 zones, the desired Route of an Item
\* of replication k >= 2 that has its k Members lies in at least 2 zones.
C29_FullRouteSpansZones ==
    flow.pc = "solved"
    => \A item \in FlowItems :
          (/\ flow.items[item].R >= 2
           /\ Cardinality(Zones(flow)) >= 2
           /\ Cardinality(extractItemFlow(flow.desired, item))
                  = flow.items[item].R)
          => Cardinality(RouteZones(item)) >= 2

\* An Item of replication 3 has a Route of 3 Members, 2 of them in one zone,
\* where all 3 Members could have been of that zone.
C29_Witness ==
    /\ flow.pc = "solved"
    /\ flow.items["i1"].R = 3
    /\ Cardinality(extractItemFlow(flow.desired, "i1")) = 3
    /\ Cardinality(RouteZones("i1")) = 2
    /\ \A m \in FlowMembers : flow.members[m].R = 2

\* C29 as stated: of every desired Route, one that is short of k Members
\* because the Members of the other zones take no Assignment too.
C29_AsStated ==
    flow.pc = "solved"
    => \A item \in FlowItems :
          (flow.items[item].R >= 2 /\ Cardinality(Zones(flow)) >= 2)
          => Cardinality(RouteZones(item)) >= 2

\* C30: after the first message of an Append stream, a message that bears a
\* Journal is treated as a validation error: the appender rolls back, and
\* the message is not forwarded to the peers as Content.
C30_AsStated ==
    \A i \in 1..Len(stream.recvd) :
        (stream.recvd[i].err = "nil" /\ stream.recvd[i].req.Journal # "")
        => /\ stream.forwarded[i].kind = "proposal"
           /\ i = Len(stream.recvd)
           /\ ~stream.more
           /\ stream.appender.reqErr # "nil"

\* The ReadResponse last validated, when it was found valid and bears no
\* Content.
ValidMetadata ==
    /\ validated.kind = "ReadResponse"
    /\ validated.err = "nil"
    /\ validated.m.Content = Nil

\* C31 (as amended).  A ReadResponse without Content that Validate accepts
\* has Offset 0 when it bears no Fragment, and when it bears one its Offset
\* lies within it (Begin <= Offset < End) and its WriteHead at or past its
\* End.
C31_MetadataOffsetWithinFragment ==
    ValidMetadata =>
        IF validated.m.Fragment = Nil THEN validated.m.Offset = 0
        ELSE /\ Deref(validated.m.Fragment).Begin <= validated.m.Offset
             /\ validated.m.Offset < Deref(validated.m.Fragment).End
             /\ validated.m.WriteHead >= Deref(validated.m.Fragment).End

\* A valid metadata response with a Fragment, its Offset past the Begin.
C31_Witness ==
    /\ ValidMetadata
    /\ validated.m.Fragment # Nil
    /\ validated.m.Offset > Deref(validated.m.Fragment).Begin

\* C31 as stated: a valid metadata response has Offset 0 exactly when it
\* bears no Fragment.  Violated by a valid response whose Fragment begins at
\* 0 and whose Offset is 0.
C31_AsStated ==
    ValidMetadata => (validated.m.Offset = 0 <=> validated.m.Fragment = Nil)

\* The shapes of a ReplicateRequest, each carried field being valid: the
\* initial message, a later proposal, later content.
InitialShape(m) ==
    /\ JournalValidate(m.Journal) = "nil"
    /\ m.Route # Nil /\ RouteValidate(Deref(m.Route)) = "nil"
    /\ m.Proposal # Nil /\ FragmentValidate(Deref(m.Proposal)) = "nil"
    /\ Deref(m.Proposal).Journal = m.Journal
    /\ m.Acknowledge
    /\ m.Content = Nil /\ m.ContentDelta = 0

ProposalShape(m) ==
    /\ m.Journal = ""
    /\ m.Proposal # Nil /\ FragmentValidate(Deref(m.Proposal)) = "nil"
    /\ m.Route = Nil /\ m.Content = Nil /\ m.ContentDelta = 0

ContentShape(m) ==
    /\ m.Journal = "" /\ m.Proposal = Nil
    /\ m.Content # Nil /\ m.ContentDelta >= 0
    /\ m.Route = Nil /\ ~m.Acknowledge

\* C32.  ReplicateRequest.Validate accepts a request exactly when it is an
\* initial message (Journal, Route, a Proposal of the same Journal,
\* Acknowledge, no Content, ContentDelta 0), a later proposal (a Proposal, no
\* Route, no Content, ContentDelta 0, Acknowledge or not), or later content
\* (Content, ContentDelta >= 0, no Route, no Acknowledge).
C32_ReplicateRequestShapes ==
    validated.kind = "ReplicateRequest" =>
        (validated.err = "nil" <=>
            \/ InitialShape(validated.m)
            \/ ProposalShape(validated.m)
            \/ ContentShape(validated.m))

\* A later proposal that asks for no acknowledgement was accepted.
C32_Witness ==
    /\ validated.kind = "ReplicateRequest"
    /\ validated.err = "nil"
    /\ ProposalShape(validated.m)
    /\ ~validated.m.Acknowledge

\* The bytes of the content requests among reqs.
RECURSIVE ContentBytes(_)
ContentBytes(reqs) ==
    IF reqs = <<>> THEN 0
    ELSE (IF Head(reqs).kind = "content" THEN Len(Head(reqs).Content) ELSE 0)
         + ContentBytes(Tail(reqs))

\* The content requests the Append stream has forwarded so far.
ContentForwarded == SelectSeq(stream.forwarded, LAMBDA r : r.kind = "content")

\* C33.  Each content request an Append scatters bears as ContentDelta the
\* number of content bytes the same Append has forwarded before it (0 for
\* the first); that is the length of the content the Spool has accepted and
\* not committed (End - Begin of its candidate Fragment), which Spool.Apply
\* checks it against, so the Spool accepts it and does not answer
\* FRAGMENT_MISMATCH, also when the Append continues a Spool that is not
\* empty.
C33_ContentDeltaIsForwarded ==
    [][(stream.pc = "recv" /\ Len(stream'.forwarded) > Len(stream.forwarded)
        /\ stream'.forwarded[Len(stream'.forwarded)].kind = "content")
       => /\ stream'.forwarded[Len(stream'.forwarded)].ContentDelta
                = ContentBytes(stream.forwarded)
          /\ stream'.forwarded[Len(stream'.forwarded)].ContentDelta
                = ContentLength(SpoolNext(stream.spool))
          /\ stream'.pln.localErr = "nil"]_allVars

\* An Append that continues a Spool holding committed content has forwarded
\* two chunks, the second at the length of the first, and the Spool accepted
\* both.
C33_Witness ==
    /\ stream.pc = "recv"
    /\ ContentLength(stream.before) > 0
    /\ stream.proposed = <<>>
    /\ Len(ContentForwarded) = 2
    /\ ContentForwarded[1].ContentDelta = 0
    /\ ContentForwarded[2].ContentDelta = Len(ContentForwarded[1].Content)
    /\ ContentForwarded[2].ContentDelta > 0
    /\ stream.pln.localErr = "nil"
    /\ Len(stream.spool.delta) = ContentBytes(stream.forwarded)

\* The Spool's Fragment as the Append found it is empty, or has reached the
\* target length of the journal.
RollDue ==
    \/ ContentLength(stream.before) = 0
    \/ ContentLength(stream.before) >= SpecLength

\* What beginAppending proposed is the Fragment rolled forward: without
\* acknowledgement, empty, at the End of the Fragment found, with the codec
\* and the first store of the spec.
ProposedRolled ==
    /\ Len(stream.proposed) = 1
    /\ stream.proposed[1].kind = "proposal"
    /\ ~stream.proposed[1].Acknowledge
    /\ stream.proposed[1].Proposal.Begin = stream.before.End
    /\ stream.proposed[1].Proposal.End = stream.before.End
    /\ stream.proposed[1].Proposal.CompressionCodec = SpecCodec
    /\ stream.proposed[1].Proposal.BackingStore
           = (IF Len(SpecStores) # 0 THEN SpecStores[1] ELSE "")

\* C34 (as amended).  At the start of an Append the primary proposes the
\* rolled-forward Fragment, without acknowledgement, exactly when the
\* Spool's Fragment is empty or at the target length and the rolled Fragment
\* differs from it; the rolled Fragment is empty, at the End of the
\* Fragment found, with the spec's codec and first store.  A Spool that is
\* not empty and below the target length is continued as it is and nothing
\* is proposed.
C34_RollsWhenDueAndDifferent ==
    stream.pc = "recv" =>
        /\ stream.proposed # <<>>
              <=> (RollDue /\ updateProposalNext(stream.before) # stream.before)
        /\ stream.proposed # <<>> => ProposedRolled
        /\ ~RollDue => /\ stream.proposed = <<>>
                       /\ stream.recvd = <<>> => stream.spool.Fragment = stream.before

\* An Append that found the Spool at the target length and proposed the
\* rolled Fragment.
C34_Witness ==
    /\ stream.pc = "recv"
    /\ ContentLength(stream.before) >= SpecLength
    /\ ProposedRolled
    /\ stream.proposed[1].Proposal.Begin = SpecLength

\* C34 as stated: the rolled Fragment is proposed exactly when the Spool's
\* Fragment is empty or at the target length.  Violated by an Append that
\* finds an empty Fragment which bears the spec's codec and store already:
\* nothing is proposed.
C34_AsStated ==
    stream.pc = "recv" => (stream.proposed # <<>> <=> RollDue)

\* The calls of ReadFrom that returned a promise.
Promised == {c \in 1..Len(wclient.calls) : wclient.calls[c].promise # 0}

\* The Puts answered so far.
Puts == 1..Len(wclient.puts)

\* The Put at position i was acknowledged and carried the content of call c.
AckedWith(i, c) ==
    /\ wclient.puts[i].ok
    /\ wclient.puts[i].write = wclient.calls[c].promise
    /\ \E k \in 1..Len(wclient.puts[i].content) : wclient.puts[i].content[k] = c

\* The promise of call c is resolved only once a Put that carried all the
\* bytes of the call has been acknowledged.
ResolvedByAckedPut(c) ==
    wclient.writes[wclient.calls[c].promise].resolved
    => \E i \in Puts : AckedWith(i, c)

\* The Put at position i, if it failed, is tried again: a later Put of the
\* same pending write was made, or its worker is about to make one.
Retried(i) ==
    ~wclient.puts[i].ok
    => \/ \E k \in Puts : k > i /\ wclient.puts[k].write = wclient.puts[i].write
       \/ \E w \in Workers : /\ wclient.workers[w].pc = "put"
                             /\ wclient.workers[w].write = wclient.puts[i].write

\* A pending write takes no bytes once worker w owns it: its content is what
\* it was when the worker removed it from the index.
OwnedUntouched(w) ==
    wclient.workers[w].pc = "put"
    => wclient.writes[wclient.workers[w].write].content = wclient.workers[w].owned

\* C35.  The promise a Write or ReadFrom returned is resolved only once a
\* Put that carried all the bytes of the call has been acknowledged; a Put
\* that failed is tried again until one succeeds; and a pending write takes
\* no bytes once a worker owns it.  It does not hold of a write whose Seek to
\* the start of the spool fails before a Put: onWrite gives the write up.
C35_AsStated ==
    /\ \A c \in Promised : ResolvedByAckedPut(c)
    /\ \A i \in Puts : Retried(i)
    /\ \A w \in Workers : OwnedUntouched(w)

\* C40: the pending writes of one journal reach the broker in the order they
\* were enqueued: before any Put of a write is made, the Put of every write
\* of the same journal enqueued before it has been acknowledged.
C40_AsStated ==
    \A i, j \in 1..Len(wclient.enqueued) :
        (/\ i < j
         /\ wclient.writes[wclient.enqueued[i]].journal
               = wclient.writes[wclient.enqueued[j]].journal)
        => \A k \in Puts :
              wclient.puts[k].write = wclient.enqueued[j]
              => \E h \in Puts : /\ h < k
                                 /\ wclient.puts[h].ok
                                 /\ wclient.puts[h].write = wclient.enqueued[i]

\* C36: Do keeps the locationCache by the path the caller requested: after
\* an error of the transport the requested path has no entry (the next
\* request of the path goes to the default endpoint), and after a response
\* with a Location header, or one a redirect led to, the requested path's
\* entry is that location.
C36_AsStated ==
    /\ client.last.outcome.kind = "error"
       => /\ client.locationCache[client.last.path] = <<>>
          /\ Rewritten(client, client.last.path)
                = Location(defaultEndpoint, client.last.path)
    /\ client.last.outcome.kind \in {"location", "redirected"}
       => client.locationCache[client.last.path] = client.last.outcome.location

\* C37: every update Watch applies is eventually taken into account by the
\* loop of Serve: the goroutine builds its allocator state, again and again,
\* from a KeySpace at the Revision Watch has applied or a later one (or it
\* has left its loop, or Serve has returned), under fair scheduling of the
\* goroutine and of Watch.  The Revisions are bounded and never decrease, so
\* this says of each Revision r Watch applies that the goroutine eventually
\* builds its state at r or later.
C37_AsStated ==
    \A m \in AllocMembers :
        []<>(\/ serve[m].builtAt >= serve[m].ksRev
             \/ serve[m].g = "exited"
             \/ serve[m].w = "returned")

\* The releases of the send half Append a has made.
ReleasesOf(a) == {i \in Releases : order[i].a = a}

\* The channel the release at position i is to close: barrier() numbers the
\* channels of a pipeline in the order of its releases.
CloseAfterOf(i) == Cardinality({j \in 1..i : order[j].pln = order[i].pln})

\* Append a has released the send half and not yet returned.
Pending(a) == pc[a] \in {"wait", "return"}

\* Each Append hands the send half to the channel once and closes its
\* closeAfter once, as it returns; and an Append that waits, waits for one
\* that has not returned.
HandsOverOnce ==
    /\ \A a \in Appends :
          /\ Cardinality(ReleasesOf(a)) <= 1
          /\ pc[a] = "recv" => (ReleasesOf(a) = {} /\ pipelineCh = <<>>)
          /\ Pending(a) => /\ Cardinality(ReleasesOf(a)) = 1
                           /\ barrier[a].closeAfter \notin plns[myPln[a]].closedChs
    /\ \A i \in Releases :
          /\ Pending(order[i].a) => barrier[order[i].a].closeAfter = CloseAfterOf(i)
          /\ pc[order[i].a] = "done"
             => CloseAfterOf(i) \in plns[order[i].pln].closedChs
    /\ \A b \in Appends :
          /\ (pc[b] = "wait" /\ ~AwaitBarrier(b))
             => \E a \in Appends : /\ Pending(a)
                                   /\ myPln[a] = myPln[b]
                                   /\ barrier[a].closeAfter = barrier[b].waitFor
          /\ (pc[b] = "acquire" /\ pipelineCh = <<>>)
             => \E a \in Appends : pc[a] = "recv"

\* C38.  Every Append that obtained the pipeline hands the pipeline, or nil
\* after a send error, to the release channel exactly once, and closes its
\* closeAfter exactly once however it returns (success, client error, send
\* error, receive error); so an Append never waits for the send half or for
\* its waitFor because of an Append that has returned, and under fair
\* scheduling each Append that waits for either goes on.
C38_HandsOverAndClosesOnce ==
    /\ []HandsOverOnce
    /\ \A b \in Appends :
          /\ (pc[b] = "acquire") ~> (pc[b] # "acquire")
          /\ (pc[b] = "wait") ~> (pc[b] = "done")

\* An Append waits for its waitFor, which an earlier Append whose client
\* failed has yet to close.
C38_Witness ==
    \E a, b \in Appends :
        /\ pc[b] = "wait" /\ ~AwaitBarrier(b)
        /\ Pending(a)
        /\ appender[a].reqErr # "nil"
        /\ myPln[a] = myPln[b]
        /\ barrier[a].closeAfter = barrier[b].waitFor

\* The cluster whose batches a KeySpace takes: its own, or the store's while
\* it has none.
ClusterOf(k) ==
    IF k.Header.ClusterId = 0 THEN EtcdCluster ELSE k.Header.ClusterId

\* The batches of the store that follow the Header of k, from its cluster.
ValidBatches(k) ==
    {WatchResponses(etcd, k.Header.Revision + 1, to, ClusterOf(k)) :
        to \in (k.Header.Revision + 1)..Len(etcd)}

\* C39.  An apply that fails its Header check returns with the KeySpace as it
\* was before the call, Header (Revision included) and KeyValues, so that
\* every batch that follows the Header, up to any Revision of the store and so
\* to that of the rejected batch, is accepted after it.
C39_RejectedApplyChangesNothing ==
    [][(ksApplied'.op = "apply" /\ ksApplied'.err # "nil")
          => /\ ks'.Header = ks.Header
             /\ ks'.KeyValues = ks.KeyValues
             /\ \A b \in ValidBatches(ks) : apply(ks', b).err = "nil"]_allVars

\* A loaded KeySpace holding key/values has rejected a batch of another
\* cluster, which carried the latest Revision of the store, and the store has
\* transactions after the KeySpace's Header.
C39_Witness ==
    /\ ksApplied.op = "apply"
    /\ ksApplied.err = "etcd ClusterID mismatch"
    /\ ks.Header.ClusterId = EtcdCluster
    /\ ks.KeyValues # <<>>
    /\ ks.Header.Revision < Len(etcd)
    /\ ValidBatches(ks) # {}

====
